-------------------------- MODULE Spec2Model --------------------------
(***************************************************************************)
(* Translation orchestrator of ComfyUI-Node-Translator                     *)
(* (src/translator.py, src/translation_config.py).                         *)
(*                                                                         *)
(* Text is modelled as a sequence of Unicode code points, so that          *)
(* str.upper(), str.lower(), len() and the CJK range test of _has_chinese  *)
(* are computed on characters as the Python code computes them.            *)
(* A Python dict is a function whose DOMAIN is its key set; the empty      *)
(* dict is << >>.  A key that a dict does not hold is a key outside the    *)
(* DOMAIN (dict.get(k) of Python returning None).                          *)
(***************************************************************************)
EXTENDS Integers, Sequences, FiniteSets, TLC

----------------------------------------------------------------------------
(* Text constants used by the scenarios (code points, with the text). *)

s_image == <<105, 109, 97, 103, 101>>   \* "image"
s_Image == <<73, 109, 97, 103, 101>>   \* "Image"
s_IMAGE == <<73, 77, 65, 71, 69>>   \* "IMAGE"
s_seed == <<115, 101, 101, 100>>   \* "seed"
s_Source == <<83, 111, 117, 114, 99, 101>>   \* "Source"
s_width == <<119, 105, 100, 116, 104>>   \* "width"
zh_image == <<22270, 20687>>   \* tu xiang (image)
zh_seed == <<38543, 26426, 31181, 23376>>   \* sui ji zhong zi (random seed)
zh_source == <<28304, 22836>>   \* yuan tou (source)
zh_width == <<23485, 24230>>   \* kuan du (width)
zh_wide == <<23485>>   \* kuan (wide)
zh_title == <<31034, 20363>>   \* shi li (example)
zh_slash == <<31181, 47, 23376>>   \* zhong/zi, holds '/'
zh_tip == <<38543, 26426, 31181, 23376, 65292, 29992, 20110, 25511, 21046, 32467, 26524>>   \* 11 characters, the tooltip of spec.md section 8, with a full-width comma
zh_doc == <<25991, 26723, 20013, 30340, 35828, 26126>>   \* 6 CJK characters
en_doc == <<115, 101, 101, 32, 116, 104, 101, 32, 114, 101, 97, 100, 109, 101>>   \* "see the readme"
en_tip == <<114, 97, 110, 100, 111, 109, 32, 115, 101, 101, 100>>   \* "random seed"
zh_long == <<36825, 26159, 19968, 27573, 19982, 21442, 25968, 26080, 20851, 30340, 24456, 38271, 30340, 35828, 26126, 25991, 23383, 29992, 26469, 27979, 35797, 38271, 24230, 19978, 38480, 30340, 26816, 26597, 23427, 26126, 26174, 36229, 36807, 20102, 20801, 35768, 30340, 38271, 24230>>   \* 39 CJK characters
s_NodeA == <<78, 111, 100, 101, 65>>   \* "NodeA"
s_NodeB == <<78, 111, 100, 101, 66>>   \* "NodeB"
s_extra == <<101, 120, 116, 114, 97>>   \* "extra"

\* TranslationConfig.PRESERVED_TYPES
PRESERVED_TYPES ==
  {
    <<73, 77, 65, 71, 69>>,   \* IMAGE
    <<77, 65, 83, 75>>,   \* MASK
    <<77, 79, 68, 69, 76>>,   \* MODEL
    <<67, 82, 79, 80, 95, 68, 65, 84, 65>>,   \* CROP_DATA
    <<90, 73, 80>>,   \* ZIP
    <<80, 68, 70>>,   \* PDF
    <<67, 83, 86>>,   \* CSV
    <<73, 78, 84>>,   \* INT
    <<70, 76, 79, 65, 84>>,   \* FLOAT
    <<66, 79, 79, 76, 69, 65, 78>>,   \* BOOLEAN
    <<83, 84, 82, 73, 78, 71>>,   \* STRING
    <<66, 66, 79, 88, 95, 76, 73, 83, 84>>   \* BBOX_LIST
  }

\* TranslationConfig.COMMON_TRANSLATIONS
COMMON_TRANSLATIONS ==
     (<<105, 109, 97, 103, 101>> :> <<22270, 20687>>)   \* image
  @@ (<<109, 97, 115, 107>> :> <<36974, 32617>>)   \* mask
  @@ (<<109, 111, 100, 101, 108>> :> <<27169, 22411>>)   \* model
  @@ (<<112, 114, 111, 99, 101, 115, 115, 111, 114>> :> <<22788, 29702, 22120>>)   \* processor
  @@ (<<100, 101, 118, 105, 99, 101>> :> <<35774, 22791>>)   \* device
  @@ (<<98, 98, 111, 120>> :> <<36793, 30028, 26694>>)   \* bbox
  @@ (<<115, 97, 109, 112, 108, 101, 115>> :> <<26679, 26412>>)   \* samples
  @@ (<<111, 112, 101, 114, 97, 116, 105, 111, 110>> :> <<25805, 20316>>)   \* operation
  @@ (<<103, 117, 105, 100, 101>> :> <<24341, 23548, 22270>>)   \* guide
  @@ (<<115, 111, 117, 114, 99, 101>> :> <<28304>>)   \* source
  @@ (<<100, 101, 115, 116, 105, 110, 97, 116, 105, 111, 110>> :> <<30446, 26631>>)   \* destination
  @@ (<<116, 104, 114, 101, 115, 104, 111, 108, 100>> :> <<38408, 20540>>)   \* threshold
  @@ (<<114, 97, 100, 105, 117, 115>> :> <<21322, 24452>>)   \* radius
  @@ (<<101, 112, 115, 105, 108, 111, 110>> :> <<101, 112, 115, 105, 108, 111, 110>>)   \* epsilon
  @@ (<<99, 111, 110, 116, 114, 97, 115, 116>> :> <<23545, 27604, 24230>>)   \* contrast
  @@ (<<98, 114, 105, 103, 104, 116, 110, 101, 115, 115>> :> <<20142, 24230>>)   \* brightness
  @@ (<<115, 97, 116, 117, 114, 97, 116, 105, 111, 110>> :> <<39281, 21644, 24230>>)   \* saturation
  @@ (<<104, 117, 101>> :> <<33394, 35843>>)   \* hue
  @@ (<<103, 97, 109, 109, 97>> :> <<20285, 39532, 20540>>)   \* gamma
  @@ (<<105, 110, 100, 101, 120>> :> <<32034, 24341>>)   \* index
  @@ (<<112, 111, 115, 105, 116, 105, 111, 110>> :> <<20301, 32622>>)   \* position
  @@ (<<115, 105, 122, 101>> :> <<22823, 23567>>)   \* size
  @@ (<<115, 99, 97, 108, 101>> :> <<32553, 25918>>)   \* scale
  @@ (<<100, 105, 108, 97, 116, 105, 111, 110>> :> <<33192, 32960>>)   \* dilation
  @@ (<<99, 111, 117, 110, 116>> :> <<35745, 25968>>)   \* count
  @@ (<<114, 101, 115, 117, 108, 116>> :> <<32467, 26524>>)   \* result

\* the table `translations` of Translator._is_valid_translation
translations ==
     (<<105, 109, 97, 103, 101>> :> {<<22270, 20687>>, <<22270, 29255>>})   \* image
  @@ (<<109, 97, 115, 107>> :> {<<25513, 30721>>, <<33945, 29256>>, <<36974, 32617>>})   \* mask
  @@ (<<109, 111, 100, 101, 108>> :> {<<27169, 22411>>})   \* model
  @@ (<<112, 114, 111, 99, 101, 115, 115, 111, 114>> :> {<<22788, 29702, 22120>>})   \* processor
  @@ (<<100, 101, 118, 105, 99, 101>> :> {<<35774, 22791>>})   \* device
  @@ (<<98, 98, 111, 120>> :> {<<36793, 26694>>, <<36793, 30028, 26694>>})   \* bbox
  @@ (<<115, 97, 109, 112, 108, 101, 115>> :> {<<26679, 26412>>})   \* samples
  @@ (<<111, 112, 101, 114, 97, 116, 105, 111, 110>> :> {<<25805, 20316>>})   \* operation
  @@ (<<103, 117, 105, 100, 101>> :> {<<24341, 23548, 22270>>})   \* guide
  @@ (<<114, 97, 100, 105, 117, 115>> :> {<<21322, 24452>>})   \* radius
  @@ (<<101, 112, 115, 105, 108, 111, 110>> :> {<<101, 112, 115>>, <<101, 112, 115, 105, 108, 111, 110>>})   \* epsilon
  @@ (<<116, 104, 114, 101, 115, 104, 111, 108, 100>> :> {<<38408, 20540>>})   \* threshold
  @@ (<<99, 111, 110, 116, 114, 97, 115, 116>> :> {<<23545, 27604, 24230>>})   \* contrast
  @@ (<<98, 114, 105, 103, 104, 116, 110, 101, 115, 115>> :> {<<20142, 24230>>})   \* brightness
  @@ (<<115, 97, 116, 117, 114, 97, 116, 105, 111, 110>> :> {<<39281, 21644, 24230>>})   \* saturation
  @@ (<<104, 117, 101>> :> {<<33394, 35843>>})   \* hue
  @@ (<<103, 97, 109, 109, 97>> :> {<<20285, 39532>>})   \* gamma
  @@ (<<105, 110, 112, 117, 116>> :> {<<36755, 20837>>})   \* input
  @@ (<<111, 117, 116, 112, 117, 116>> :> {<<36755, 20986>>})   \* output
  @@ (<<119, 101, 105, 103, 104, 116>> :> {<<26435, 37325>>})   \* weight
  @@ (<<98, 105, 97, 115>> :> {<<20559, 32622>>})   \* bias
  @@ (<<115, 99, 97, 108, 101>> :> {<<32553, 25918>>})   \* scale
  @@ (<<102, 97, 99, 116, 111, 114>> :> {<<22240, 23376>>})   \* factor
  @@ (<<115, 116, 114, 101, 110, 103, 116, 104>> :> {<<24378, 24230>>})   \* strength
  @@ (<<118, 97, 108, 117, 101>> :> {<<20540>>})   \* value
  @@ (<<99, 111, 108, 111, 114>> :> {<<39068, 33394>>})   \* color
  @@ (<<115, 105, 122, 101>> :> {<<23610, 23544>>})   \* size
  @@ (<<119, 105, 100, 116, 104>> :> {<<23485, 24230>>})   \* width
  @@ (<<104, 101, 105, 103, 104, 116>> :> {<<39640, 24230>>})   \* height
  @@ (<<100, 101, 112, 116, 104>> :> {<<28145, 24230>>})   \* depth
  @@ (<<99, 104, 97, 110, 110, 101, 108>> :> {<<36890, 36947>>})   \* channel
  @@ (<<105, 110, 100, 101, 120>> :> {<<32034, 24341>>})   \* index
  @@ (<<99, 111, 117, 110, 116>> :> {<<35745, 25968>>})   \* count
  @@ (<<110, 117, 109, 98, 101, 114>> :> {<<25968, 37327>>})   \* number
  @@ (<<116, 121, 112, 101>> :> {<<31867, 22411>>})   \* type
  @@ (<<109, 111, 100, 101>> :> {<<27169, 24335>>})   \* mode
  @@ (<<109, 101, 116, 104, 111, 100>> :> {<<26041, 27861>>})   \* method
  @@ (<<97, 108, 103, 111, 114, 105, 116, 104, 109>> :> {<<31639, 27861>>})   \* algorithm
  @@ (<<102, 117, 110, 99, 116, 105, 111, 110>> :> {<<20989, 25968>>})   \* function
  @@ (<<112, 97, 114, 97, 109, 101, 116, 101, 114>> :> {<<21442, 25968>>})   \* parameter
  @@ (<<115, 101, 116, 116, 105, 110, 103>> :> {<<35774, 32622>>})   \* setting
  @@ (<<111, 112, 116, 105, 111, 110>> :> {<<36873, 39033>>})   \* option
  @@ (<<101, 110, 97, 98, 108, 101>> :> {<<21551, 29992>>})   \* enable
  @@ (<<100, 105, 115, 97, 98, 108, 101>> :> {<<31105, 29992>>})   \* disable
  @@ (<<116, 114, 117, 101>> :> {<<26159>>, <<30495>>})   \* true
  @@ (<<102, 97, 108, 115, 101>> :> {<<20551>>, <<21542>>})   \* false

----------------------------------------------------------------------------
(* Python built-ins on text and on dicts. *)

\* str.upper() on the characters of the keys (ASCII letters a-z)
Upper(s) == [i \in DOMAIN s |-> IF s[i] >= 97 /\ s[i] <= 122 THEN s[i] - 32 ELSE s[i]]

\* str.lower() on the characters of the keys (ASCII letters A-Z)
Lower(s) == [i \in DOMAIN s |-> IF s[i] >= 65 /\ s[i] <= 90 THEN s[i] + 32 ELSE s[i]]

\* d.get(k, default)
Get(d, k, default) == IF k \in DOMAIN d THEN d[k] ELSE default

\* the dict d after d[k] = v
Put(d, k, v) == [x \in DOMAIN d \cup {k} |-> IF x = k THEN v ELSE d[x]]

\* the dict d after d.update(e)
Update(d, e) == [x \in DOMAIN d \cup DOMAIN e |-> IF x \in DOMAIN e THEN e[x] ELSE d[x]]

\* the empty dict {}
EmptyDict == << >>

\* truth value of a text (the empty text is falsy)
Truthy(s) == s # << >>

\* the sections of a node record that hold parameter names
Sections == {"inputs", "widgets", "outputs"}

\* the field a node record has for every key of full_batch_data
NodeFields == {"title", "inputs", "widgets", "outputs", "tooltips"}

----------------------------------------------------------------------------
(* Translator._has_chinese, Translator._is_valid_translation *)

\* any('一' <= ch <= '鿿' for ch in str(text))
_has_chinese(text) == \E i \in DOMAIN text : text[i] >= 19968 /\ text[i] <= 40959

\* the characters \ / : * ? " < > |  of check 3
SpecialChars == {92, 47, 58, 42, 63, 34, 60, 62, 124}


\* Translator._is_valid_translation(english_key, chinese_text), checks 1 to 7
_is_valid_translation(english_key, chinese_text) ==
    /\ Truthy(chinese_text)
    /\ _has_chinese(chinese_text)
    /\ ~ \E i \in DOMAIN chinese_text : chinese_text[i] \in SpecialChars
    /\ ~ (Len(chinese_text) > 3 * Len(english_key) + 10)
    /\ (Lower(english_key) \in DOMAIN translations
          => chinese_text \in translations[Lower(english_key)])

----------------------------------------------------------------------------
(* Translator._strict_validate_and_correct_batch *)

\* a faulty _validated_value: the provider's plausible value is taken
\* before the reserved-name rule is applied
_validated_value_provider_first(key, trans_section) ==
    IF key \in DOMAIN trans_section /\ _is_valid_translation(key, trans_section[key])
      THEN trans_section[key]
    ELSE IF Upper(key) \in PRESERVED_TYPES
      THEN Upper(key)
    ELSE IF Lower(key) \in DOMAIN COMMON_TRANSLATIONS
      THEN COMMON_TRANSLATIONS[Lower(key)]
    ELSE key

\* a faulty _validated_value: the provider's value is taken without the
\* plausibility check
_validated_value_unchecked(key, trans_section) ==
    IF Upper(key) \in PRESERVED_TYPES
      THEN Upper(key)
    ELSE IF Lower(key) \in DOMAIN COMMON_TRANSLATIONS
      THEN COMMON_TRANSLATIONS[Lower(key)]
    ELSE IF key \in DOMAIN trans_section
      THEN trans_section[key]
    ELSE key

\* the value given to one key of a section: the four-way decision of the
\* loop body `for key, orig_value in orig_section.items()`
_validated_value(key, trans_section) ==
    IF Upper(key) \in PRESERVED_TYPES
      THEN Upper(key)
    ELSE IF Lower(key) \in DOMAIN COMMON_TRANSLATIONS
      THEN COMMON_TRANSLATIONS[Lower(key)]
    ELSE IF key \in DOMAIN trans_section
      THEN IF _is_valid_translation(key, trans_section[key])
             THEN trans_section[key]
             ELSE key
    ELSE key

\* corrected_node for a node the provider's batch holds
_corrected_node(node_info, translated_info) ==
    LET target_keys == DOMAIN node_info.inputs \cup DOMAIN node_info.widgets
                         \cup DOMAIN node_info.tooltips
        trans_tooltips == Get(translated_info, "tooltips", EmptyDict)
        kept == {key \in target_keys :
                   IF key \in DOMAIN trans_tooltips
                     THEN _is_valid_translation(key, trans_tooltips[key])
                     ELSE key \in DOMAIN node_info.tooltips}
    IN  [title    |-> Get(translated_info, "title", node_info.title),
         inputs   |-> [key \in DOMAIN node_info.inputs |->
                         _validated_value(key, Get(translated_info, "inputs", EmptyDict))],
         widgets  |-> [key \in DOMAIN node_info.widgets |->
                         _validated_value(key, Get(translated_info, "widgets", EmptyDict))],
         outputs  |-> [key \in DOMAIN node_info.outputs |->
                         _validated_value(key, Get(translated_info, "outputs", EmptyDict))],
         tooltips |-> [key \in kept |->
                         IF key \in DOMAIN trans_tooltips
                           THEN trans_tooltips[key]
                           ELSE node_info.tooltips[key]]]

\* corrected_batch: a node the provider's batch does not hold keeps its
\* original record (lines 460-464)
_strict_validate_and_correct_batch(original_batch, translated_batch) ==
    [node_name \in DOMAIN original_batch |->
        IF node_name \notin DOMAIN translated_batch
          THEN original_batch[node_name]
          ELSE _corrected_node(original_batch[node_name], translated_batch[node_name])]

----------------------------------------------------------------------------
(* Translator._final_validation *)

\* the default tooltip f"该参数用于设置“{display}”" (line 624)
DefaultTip(display) ==
    <<35813, 21442, 25968, 29992, 20110, 35774, 32622, 8220>> \o display \o <<8221>>

\* Python's `a or b` on texts, None and the empty text being falsy
OrElse(a, b) == IF Truthy(a) THEN a ELSE b

\* validated_node for a node that all_translated_nodes holds with its
\* four required fields.  doc_tip is what lines 610-622 produce for a key
\* the translated tooltips do not hold: the text the provider returned for
\* the original tooltip or for a line of the plugin's documentation, or
\* << >> (None) when there is neither or the call raised.
_validated_node(node_info, translated_info, doc_tip) ==
    LET sec(section) ==
            [key \in DOMAIN node_info[section] |->
                IF key \in DOMAIN Get(translated_info, section, EmptyDict)
                  THEN translated_info[section][key]
                  ELSE key]
        target_keys ==
            DOMAIN node_info.inputs \cup DOMAIN node_info.widgets
              \cup DOMAIN Get(translated_info, "inputs", EmptyDict)
              \cup DOMAIN Get(translated_info, "widgets", EmptyDict)
              \cup DOMAIN node_info.tooltips
        trans_tooltips == Get(translated_info, "tooltips", EmptyDict)
        display(key) ==
            OrElse(Get(sec("inputs"), key, << >>),
            OrElse(Get(sec("widgets"), key, << >>),
            OrElse(Get(Get(translated_info, "inputs", EmptyDict), key, << >>),
            OrElse(Get(Get(translated_info, "widgets", EmptyDict), key, << >>),
                   key))))
        tip(key) == IF key \in DOMAIN trans_tooltips THEN trans_tooltips[key] ELSE doc_tip
    IN  [title    |-> Get(translated_info, "title", node_info.title),
         inputs   |-> sec("inputs"),
         widgets  |-> sec("widgets"),
         outputs  |-> sec("outputs"),
         tooltips |-> [key \in target_keys |->
                         IF Truthy(tip(key)) THEN tip(key) ELSE DefaultTip(display(key))]]

_final_validation(original_nodes, translated_nodes, doc_tip) ==
    [node_name \in DOMAIN original_nodes |->
        IF node_name \notin DOMAIN translated_nodes
          THEN original_nodes[node_name]
        ELSE IF ~ ({"title", "inputs", "widgets", "outputs"} \subseteq DOMAIN translated_nodes[node_name])
          THEN original_nodes[node_name]
        ELSE _validated_node(original_nodes[node_name], translated_nodes[node_name], doc_tip)]

\* lines 323-337: with only_tooltips set, everything but the tooltips is
\* put back to the original record
_tooltip_only(original_nodes, final_nodes) ==
    [node_name \in DOMAIN original_nodes |->
        LET node_info == original_nodes[node_name]
            base == Get(final_nodes, node_name, node_info)
        IN  [title    |-> node_info.title,
             inputs   |-> node_info.inputs,
             widgets  |-> node_info.widgets,
             outputs  |-> node_info.outputs,
             tooltips |-> Get(base, "tooltips", node_info.tooltips)]]

----------------------------------------------------------------------------
(* Translator._collect_missing, _merge_translations, _coverage *)

\* the record a node has when current_nodes does not hold it
BlankNode == [title |-> << >>, inputs |-> EmptyDict, widgets |-> EmptyDict,
              outputs |-> EmptyDict, tooltips |-> EmptyDict]

\* a faulty _missing_keys: only a value equal to its key counts as missing
_missing_keys_unchanged(orig, curr, section) ==
    {k \in DOMAIN orig[section] \cup DOMAIN Get(curr, section, EmptyDict) :
        Get(Get(curr, section, EmptyDict), k, << >>) = k}

\* the keys of one section of one node that a round has to repair
_missing_keys(orig, curr, section) ==
    {k \in DOMAIN orig[section] \cup DOMAIN Get(curr, section, EmptyDict) :
        LET v == Get(Get(curr, section, EmptyDict), k, << >>)
        IN  ~ _has_chinese(v) \/ v = k}

\* the tooltip keys of one node that a round has to repair
_missing_tooltips(orig, curr) ==
    {k \in DOMAIN orig.inputs \cup DOMAIN orig.widgets \cup DOMAIN orig.tooltips :
        ~ _has_chinese(Get(Get(curr, "tooltips", EmptyDict), k, << >>))}

\* a faulty _missing_title: the test of the title is inverted
_missing_title_inverted(curr, only_tooltips) ==
    ~ only_tooltips /\ _has_chinese(Get(curr, "title", << >>))

\* whether the title of one node has to be repaired
_missing_title(curr, only_tooltips) ==
    ~ only_tooltips /\ ~ _has_chinese(Get(curr, "title", << >>))

\* node_miss of one node; a title of None is a record without "title"
_node_miss(orig, curr, only_tooltips) ==
    LET full == [title    |-> orig.title,
                 inputs   |-> IF only_tooltips THEN EmptyDict
                              ELSE [k \in _missing_keys(orig, curr, "inputs") |-> Get(orig.inputs, k, k)],
                 widgets  |-> IF only_tooltips THEN EmptyDict
                              ELSE [k \in _missing_keys(orig, curr, "widgets") |-> Get(orig.widgets, k, k)],
                 outputs  |-> IF only_tooltips THEN EmptyDict
                              ELSE [k \in _missing_keys(orig, curr, "outputs") |-> Get(orig.outputs, k, k)],
                 tooltips |-> [k \in _missing_tooltips(orig, curr) |-> Get(orig.tooltips, k, k)]]
    IN  IF _missing_title(curr, only_tooltips)
          THEN full
          ELSE [f \in NodeFields \ {"title"} |-> full[f]]

\* the number of entries of node_miss
_node_total(miss) ==
    (IF "title" \in DOMAIN miss THEN 1 ELSE 0)
      + Cardinality(DOMAIN miss.inputs) + Cardinality(DOMAIN miss.widgets)
      + Cardinality(DOMAIN miss.outputs) + Cardinality(DOMAIN miss.tooltips)

\* sum of the values of a function to the naturals
RECURSIVE SumOf(_)
SumOf(f) ==
    IF DOMAIN f = {} THEN 0
    ELSE LET x == CHOOSE y \in DOMAIN f : TRUE
         IN  f[x] + SumOf([y \in DOMAIN f \ {x} |-> f[y]])

\* _collect_missing: (missing, total)
_collect_missing(original_nodes, current_nodes, only_tooltips) ==
    LET miss == [node_name \in DOMAIN original_nodes |->
                    _node_miss(original_nodes[node_name],
                               Get(current_nodes, node_name, EmptyDict), only_tooltips)]
        listed == {node_name \in DOMAIN original_nodes :
                     \/ ("title" \in DOMAIN miss[node_name] /\ Truthy(miss[node_name].title))
                     \/ miss[node_name].inputs # EmptyDict
                     \/ miss[node_name].widgets # EmptyDict
                     \/ miss[node_name].outputs # EmptyDict
                     \/ miss[node_name].tooltips # EmptyDict}
    IN  [missing |-> [node_name \in listed |-> miss[node_name]],
         total   |-> SumOf([node_name \in DOMAIN original_nodes |-> _node_total(miss[node_name])])]

\* whether a value of the provider's document is a JSON object: a value
\* that is none (a text, a number, a list) is modelled as the record
\* NotAnObject
NotAnObject == [notdict |-> TRUE]
IsObject(v) == "notdict" \notin DOMAIN v

\* a faulty _merged_section: a Chinese value of the document fills a key
\* the section lacks but never replaces a value
_merged_section_keep(curr_section, trans_section) ==
    Update([k \in {x \in DOMAIN trans_section : _has_chinese(trans_section[x])} |-> trans_section[k]],
           curr_section)

\* a faulty _merged_section: the section becomes the Chinese entries of
\* the document, the entries it held are dropped
_merged_section_replaced(curr_section, trans_section) ==
    [k \in {x \in DOMAIN trans_section : _has_chinese(trans_section[x])} |-> trans_section[k]]

\* the entries of a provider's section that _merge_translations takes
_merged_section(curr_section, trans_section) ==
    Update(curr_section,
           [k \in {x \in DOMAIN trans_section : _has_chinese(trans_section[x])} |-> trans_section[k]])

\* one node after the body of the loop of _merge_translations
_merge_node(curr, trans, only_tooltips) ==
    [title    |-> IF ~ only_tooltips /\ Truthy(Get(trans, "title", << >>)) /\ _has_chinese(Get(trans, "title", << >>))
                    THEN trans.title ELSE curr.title,
     inputs   |-> IF only_tooltips THEN curr.inputs
                  ELSE _merged_section(curr.inputs, Get(trans, "inputs", EmptyDict)),
     widgets  |-> IF only_tooltips THEN curr.widgets
                  ELSE _merged_section(curr.widgets, Get(trans, "widgets", EmptyDict)),
     outputs  |-> IF only_tooltips THEN curr.outputs
                  ELSE _merged_section(curr.outputs, Get(trans, "outputs", EmptyDict)),
     tooltips |-> _merged_section(curr.tooltips, Get(trans, "tooltips", EmptyDict))]

\* _merge_translations over the nodes `done` of translated_missing (all of
\* them when the call returns; those before the failing one when a value
\* of the document is not an object and trans.get raises)
_merge_translations(current_nodes, translated_missing, done, only_tooltips) ==
    [node_name \in DOMAIN current_nodes \cup done |->
        IF node_name \in done
          THEN _merge_node(Get(current_nodes, node_name, BlankNode),
                           translated_missing[node_name], only_tooltips)
          ELSE current_nodes[node_name]]

\* _coverage: total_keys and covered_keys (coverage is their ratio times 100)
_coverage(nodes) ==
    LET keys(info)    == (IF "title" \in DOMAIN info THEN 1 ELSE 0)
                           + SumOf([s \in Sections \cup {"tooltips"} |->
                                      Cardinality(DOMAIN Get(info, s, EmptyDict))])
        covered(info) == (IF "title" \in DOMAIN info /\ _has_chinese(info.title) THEN 1 ELSE 0)
                           + SumOf([s \in Sections \cup {"tooltips"} |->
                                      Cardinality({k \in DOMAIN Get(info, s, EmptyDict) :
                                                     _has_chinese(info[s][k])})])
    IN  [total_keys   |-> SumOf([n \in DOMAIN nodes |-> keys(nodes[n])]),
         covered_keys |-> SumOf([n \in DOMAIN nodes |-> covered(nodes[n])])]

----------------------------------------------------------------------------
(* State *)

\* Translator._strict_validate_and_correct_batch, called on one batch
VARIABLES
    v_pc,               \* "call" before, "done" after the validation
    original_batch,     \* argument original_batch
    translated_batch,   \* argument translated_batch (the provider's decoded batch)
    corrected_batch     \* the returned corrected_batch

vvars == <<v_pc, original_batch, translated_batch, corrected_batch>>

\* Translator.translate_nodes
VARIABLES
    pc,                     \* where translate_nodes is: "batches", "final", "round",
                            \* "done" (returned), "raised"
    nodes_info,             \* argument nodes_info: the extracted node map
    batch_size,             \* argument batch_size
    rounds,                 \* argument rounds
    only_tooltips,          \* self.only_tooltips
    batch_idx,              \* the index of the next batch of round 1
    all_translated_nodes,   \* all_translated_nodes
    final_corrected,        \* final_corrected, the value returned
    r,                      \* the loop variable of the rounds
    missing_stats,          \* missing_stats: one [round, found, fixed] per round
    consecutive_no_improve, \* consecutive_no_improve
    loop_exit,              \* how the loop of the rounds ended: "none" (not yet),
                            \* "converged" (break of line 350), "no_improve" (break of
                            \* line 370), "max_rounds" (range exhausted), "error" (line 374)
    gap_calls,              \* calls of _translate_batch made by the rounds
    last_merged,            \* final_corrected after the last merge that completed
    provider                \* the provider the translator was built with

tvars == <<pc, nodes_info, batch_size, rounds, only_tooltips, batch_idx,
           all_translated_nodes, final_corrected, r, missing_stats,
           consecutive_no_improve, loop_exit, gap_calls, last_merged,
           provider>>

\* the provider-call wrappers
VARIABLES
    rpc,                \* "idle", "request" (a request is to be sent), "done", "raised"
    method,             \* the wrapper: "translate_batch" or "_translate_batch" of
                        \* Translator, or the _translate_batch of a variant
    error_policy,       \* self.error_policy
    gemma_model,        \* whether the model id names a google/gemma/gemini model
    use_single_user,    \* local use_single_user
    attempts,           \* local attempts
    delay,              \* local delay
    waits,              \* the arguments of time.sleep so far, less the jitter
    requests,           \* the requests sent by this call so far
    stub,               \* the provider: "always_429" or "any"
    calls,              \* the calls of the wrapper in this session so far
    switched            \* whether a call of the session was re-sent as one user message

rvars == <<rpc, method, error_policy, gemma_model, use_single_user, attempts, delay,
           waits, requests, stub, calls, switched>>

\* NodeParser.parse_folder, called on one plugin folder
VARIABLES
    p_pc,               \* "idle", "call" before, "returned" or "raised" after the call
    root_kind,          \* what folder_path names: "dir", "missing" or "file"
    source_file,        \* the statements of the plugin's Python file, in file order
    v3_found,           \* the node map _parse_v3_api finds in the folder
    parsed              \* the node map parse_folder returned

pvars == <<p_pc, root_kind, source_file, v3_found, parsed>>

\* App: the translation button, the retry dialog and the worker threads
VARIABLES
    translating,        \* self.translating
    plugin_folders,     \* len(self.plugin_folders)
    failed_records,     \* whether self.failed_records holds a record
    retry_btn,          \* whether the retry button is enabled
    dialog_open,        \* whether the dialog of show_failed_dialog is open
    w_pc,               \* per thread: "unborn", "start" or "retry" (started), "loop"
                        \* (at the for of line 1580), "plugin" (inside the body, in
                        \* translate_nodes), "finish" (after the loop), "exit"
    w_left,             \* per thread: the folders its loop has not reached yet
    w_calls,            \* per thread: the provider calls the plugin in progress
                        \* still has to make (batches and rounds)
    issued              \* the provider calls issued so far by all threads

avars == <<translating, plugin_folders, failed_records, retry_btn, dialog_open, w_pc, w_left,
           w_calls, issued>>

\* App.batch_translation_task on one plugin: the round-1 batch of
\* translate_nodes in _translate_with_fallback, and the except clause
VARIABLES
    f_pc,               \* "idle", "translate" (in _translate_with_fallback), "except"
                        \* (in the except clause of the task), "saved", "failed"
    f_size,             \* the number of nodes of the batch
    f_stack,            \* the activations of _translate_with_fallback, outermost
                        \* first: the items [lo..hi] of each, its _depth, and where
                        \* it is ("call", "left", "right")
    f_done,             \* the nodes whose translation the returned calls hold
    f_calls,            \* calls of _translate_batch made for the batch by the
                        \* translator in use
    f_splits,           \* how many times that translator split a batch
    f_deepest,          \* the largest _depth at which it called _translate_batch
    fallback_models,    \* len(cfg["fallback_models"])
    f_offered,          \* the fallback models offered to the user so far
    rate_limited,       \* whether the error of the plugin is localized as code 429
    batch_size_arg,     \* argument batch_size of the task
    curr_batch_size     \* local curr_batch_size

fvars == <<f_pc, f_size, f_stack, f_done, f_calls, f_splits, f_deepest, fallback_models,
           f_offered, rate_limited, batch_size_arg, curr_batch_size>>

\* Translator._extract_json_from_response, from the first opening brace on
VARIABLES
    d_pc,               \* "idle", "call" before, "done" after the candidate is chosen
    candidate,          \* response_text[start:], the text from the first brace on
    json_str,           \* the candidate cut at end_balanced, or closed
    loads_arg           \* the text handed to json.loads

dvars == <<d_pc, candidate, json_str, loads_arg>>

----------------------------------------------------------------------------
(* SpecValidator: _strict_validate_and_correct_batch on one-node batches *)

\* parameter names of the original batches: a reserved name in two
\* spellings, a dictionary name, a name with a canonical translation set,
\* and a name under none of the rules
ValidatorKeys == {s_image, s_Image, s_Source, s_width, s_seed}

\* what the provider may return for a key: canonical and other plausible
\* translations, the untranslated key, a path character, an overlong
\* text, the empty text
ProviderValues(key) ==
    {zh_image, zh_seed, zh_width, zh_wide, key, zh_slash, zh_long, << >>}

\* the one-entry or empty dicts over key k with values in S
Dicts(k, S) == {EmptyDict} \cup {(k :> v) : v \in S}

ValidatorOriginals ==
    { ("NodeA" :> [title |-> s_NodeA, inputs |-> (k1 :> k1), widgets |-> (k2 :> k2),
                   outputs |-> o, tooltips |-> t]) :
        k1 \in ValidatorKeys, k2 \in {s_seed, s_width},
        o \in {EmptyDict, (s_IMAGE :> s_IMAGE)},
        t \in {EmptyDict} \cup {(k :> en_tip) : k \in {s_seed, s_width}} }

ValidatorAnswers(orig) ==
    LET n  == orig["NodeA"]
        k1 == CHOOSE k \in DOMAIN n.inputs : TRUE
        k2 == CHOOSE k \in DOMAIN n.widgets : TRUE
    IN  {EmptyDict} \cup
        { ("NodeA" :> [x \in fs |-> full[x]]) :
            fs \in {NodeFields, NodeFields \ {"title"}},
            full \in { [title |-> zh_title, inputs |-> i, widgets |-> w, outputs |-> o, tooltips |-> t] :
                        i \in Dicts(k1, ProviderValues(k1)),
                        w \in Dicts(k2, {zh_seed, zh_width, k2}),
                        o \in IF n.outputs = EmptyDict THEN {EmptyDict}
                                                       ELSE Dicts(s_IMAGE, {zh_image}),
                        t \in Dicts(k2, {zh_tip, zh_long}) } }

VInit ==
    /\ v_pc = "call"
    /\ original_batch \in ValidatorOriginals
    /\ translated_batch \in ValidatorAnswers(original_batch)
    /\ corrected_batch = EmptyDict

Validate ==
    /\ v_pc = "call"
    /\ corrected_batch' = _strict_validate_and_correct_batch(original_batch, translated_batch)
    /\ v_pc' = "done"
    /\ UNCHANGED <<original_batch, translated_batch>>
    /\ UNCHANGED <<tvars, rvars, pvars, avars, fvars, dvars>>

VNext == Validate


----------------------------------------------------------------------------
(* The provider.  A call of Translator._translate_batch either raises     *)
(* (a provider error, rate-limit retries exhausted, an empty or           *)
(* undecodable response) or returns the decoded document, which is        *)
(* whatever the model wrote: AnswerSet bounds it to the documents below.  *)

\* the translation a cooperating provider gives for a parameter name
Translation ==
    (s_image :> zh_image) @@ (s_IMAGE :> zh_image) @@ (s_seed :> zh_seed)
      @@ (s_Source :> zh_source) @@ (s_width :> zh_width)

\* restriction of a dict to the keys S
Restrict(d, S) == [x \in S |-> d[x]]

\* the document of spec.md section 8 (end-to-end), which a stub provider
\* returns for every request
ExampleNode ==
    [title |-> zh_title, inputs |-> (s_image :> zh_image), widgets |-> (s_seed :> zh_seed),
     outputs |-> EmptyDict, tooltips |-> (s_seed :> zh_tip)]

ExampleDocument == ("NodeA" :> ExampleNode)

\* the fields the request node req asks for: its title and the names of
\* its sections
FieldsOf(req) ==
    (IF "title" \in DOMAIN req THEN {<<"title", << >> >>} ELSE {})
      \cup UNION {{<<s, k>> : k \in DOMAIN req[s]} : s \in Sections \cup {"tooltips"}}

\* the object a provider writes for one node when it translates the
\* fields F; with x = "input" it adds a parameter nobody asked for
NodeAnswer(F, x) ==
    LET of(s) == {f[2] : f \in {g \in F : g[1] = s}}
        body  == [title    |-> zh_title,
                  inputs   |-> Update([k \in of("inputs") |-> Translation[k]],
                                      IF x = "input" THEN (s_extra :> zh_seed) ELSE EmptyDict),
                  widgets  |-> [k \in of("widgets") |-> Translation[k]],
                  outputs  |-> [k \in of("outputs") |-> Translation[k]],
                  tooltips |-> [k \in of("tooltips") |-> zh_tip]]
    IN  IF <<"title", << >> >> \in F THEN body ELSE Restrict(body, NodeFields \ {"title"})

\* the values of one node for the request node req: none, one or all of
\* the requested fields translated; none or all of them together with a
\* parameter the request does not hold; a value that is not an object
NodeAnswerSet(req) ==
    { NodeAnswer(F, "none") : F \in {{}, FieldsOf(req)} \cup {{f} : f \in FieldsOf(req)} }
      \cup { NodeAnswer(F, "input") : F \in {{}, FieldsOf(req)} }
      \cup {NotAnObject}

\* the documents an arbitrary provider may return for the request batch
AnswerSet(request) ==
    LET sets == [n \in DOMAIN request |-> NodeAnswerSet(request[n])]
        opts == UNION {sets[n] : n \in DOMAIN request}
    IN  UNION { {a \in [S -> opts] : \A n \in S : a[n] \in sets[n]} : S \in SUBSET DOMAIN request }

\* the document of a provider that translates every field of the request
FullAnswer(request) == [n \in DOMAIN request |-> NodeAnswer(FieldsOf(request[n]), "none")]

\* the documents of a provider that never translates anything: the nodes
\* with no field translated, or no node at all
EchoAnswers(request) == {[n \in DOMAIN request |-> NodeAnswer({}, "none")], EmptyDict}

\* the providers translate_nodes is run with: the stub that translates
\* everything, the stub that translates nothing, the stub that returns the
\* example document, and a provider that may return anything and may fail
Providers == {"full", "none", "example", "any"}

ProviderAnswers(kind, request) ==
    CASE kind = "full"    -> {FullAnswer(request)}
      [] kind = "none"    -> EchoAnswers(request)
      [] kind = "example" -> {ExampleDocument}
      [] OTHER            -> AnswerSet(request)

\* whether a call of the provider may raise
MayRaise(kind) == kind = "any"

\* what the provider returns when _final_validation asks it to translate
\* an original tooltip or a line of the plugin's documentation: nothing
\* (no such line, or the call raised), a Chinese text or an English text
DocTips(kind) ==
    CASE kind = "none" -> {<< >>, en_doc}
      [] kind = "any"  -> {<< >>, zh_doc, en_doc}
      [] OTHER         -> {<< >>, zh_doc}

----------------------------------------------------------------------------
(* Translator._translate_with_fallback *)

\* full_batch_data restricted to the node names of items
BatchOf(data, items) == [n \in {items[i] : i \in DOMAIN items} |-> data[n]]

\* the outcome of a call that raised
Raised == [ok |-> FALSE, answer |-> EmptyDict]

\* the outcomes of _translate_with_fallback on the nodes `items` (in dict
\* order) of `data` at recursion depth `depth`: what _translate_batch
\* returned, or, when it raised, the halves' results merged; a half that
\* raises makes the call raise
RECURSIVE _translate_with_fallback(_, _, _, _)
_translate_with_fallback(kind, data, items, depth) ==
    LET direct == {[ok |-> TRUE, answer |-> a] : a \in ProviderAnswers(kind, BatchOf(data, items))}
        mid    == Len(items) \div 2
    IN  IF ~ MayRaise(kind)
          THEN direct
        ELSE IF depth >= 2 \/ Len(items) <= 1
          THEN direct \cup {Raised}
          ELSE direct \cup
               { IF left.ok /\ right.ok
                   THEN [ok |-> TRUE, answer |-> Update(left.answer, right.answer)]
                   ELSE Raised :
                   left  \in _translate_with_fallback(kind, data, SubSeq(items, 1, mid), depth + 1),
                   right \in _translate_with_fallback(kind, data, SubSeq(items, mid + 1, Len(items)), depth + 1) }

----------------------------------------------------------------------------
(* Translator.translate_nodes *)


\* dict order of the node names
NodeOrder == <<"NodeA", "NodeB">>

\* list(nodes_info.items()): the node names in dict order
node_items(nodes) == SelectSeq(NodeOrder, LAMBDA n : n \in DOMAIN nodes)

total_batches(nodes, size) == (Len(node_items(nodes)) + size - 1) \div size

Min(a, b) == IF a < b THEN a ELSE b
Max(a, b) == IF a > b THEN a ELSE b

\* the node names of batch number idx (from 0)
current_batch(nodes, size, idx) ==
    SubSeq(node_items(nodes), idx * size + 1, Min((idx + 1) * size, Len(node_items(nodes))))

\* a faulty max_rounds: the upper clamp is left out
max_rounds_unclamped(n) == Max(1, n)

\* max_rounds = max(1, min(5, int(rounds)))
max_rounds(n) == Max(1, Min(5, n))

\* a record of the extracted node map: every value is its own key
\* (NodeParser.optimize_node_info), the title is the node's key
Node(title, i, w, o, t) ==
    [title |-> title, inputs |-> [k \in i |-> k], widgets |-> [k \in w |-> k],
     outputs |-> [k \in o |-> k], tooltips |-> t]

\* the plugin of spec.md section 8: one node, inputs {image}, widgets {seed}
ExampleNodes == ("NodeA" :> Node(s_NodeA, {s_image}, {s_seed}, {}, EmptyDict))

\* the node maps translate_nodes is run on
NodeMaps ==
    { ExampleNodes,
      ("NodeA" :> Node(s_NodeA, {}, {s_width}, {s_seed}, (s_width :> en_tip))),
      ("NodeA" :> Node(s_NodeA, {s_Source}, {}, {}, EmptyDict))
        @@ ("NodeB" :> Node(s_NodeB, {}, {}, {}, EmptyDict)) }

\* bounds of the arguments
MaxRoundsArg == 6
MaxRoundsArgMulti == 2
MaxBatchSize == 2

\* the batch sizes a node map is translated with: a size above the number
\* of nodes gives the same single batch as that number
BatchSizes(nodes) == 1..Min(MaxBatchSize, Cardinality(DOMAIN nodes))

\* the values of the argument rounds a node map is translated with: up to
\* MaxRoundsArg for a map of one node, up to MaxRoundsArgMulti for a map
\* of several
RoundsArgs(nodes) ==
    0..(IF Cardinality(DOMAIN nodes) = 1 THEN MaxRoundsArg ELSE MaxRoundsArgMulti)

TInit ==
    /\ pc = "batches"
    /\ nodes_info \in NodeMaps
    /\ batch_size \in BatchSizes(nodes_info)
    /\ rounds \in RoundsArgs(nodes_info)
    /\ only_tooltips \in BOOLEAN
    /\ batch_idx = 0
    /\ all_translated_nodes = EmptyDict
    /\ final_corrected = EmptyDict
    /\ r = 2
    /\ missing_stats = << >>
    /\ consecutive_no_improve = 0
    /\ loop_exit = "none"
    /\ gap_calls = 0
    /\ last_merged = EmptyDict
    /\ provider \in Providers

\* full_batch_data of the batch number batch_idx (lines 284-295)
full_batch_data == BatchOf(nodes_info, current_batch(nodes_info, batch_size, batch_idx))

\* a faulty _round_exit: the break on fixed = 0 is left out
_round_exit_no_break(fixed, round, last_round) ==
    IF round >= last_round THEN "max_rounds" ELSE "none"

\* how a round that merged its document leaves the loop of lines 340-370:
\* by the break of line 370 when it fixed nothing, by the end of the range
\* when it was the last round; "none" when the next round is entered
_round_exit(fixed, round, last_round) ==
    IF fixed = 0 THEN "no_improve"
    ELSE IF round >= last_round THEN "max_rounds"
    ELSE "none"

\* lines 275-310: one batch of round 1 is translated, validated and kept
BatchTranslated ==
    /\ pc = "batches"
    /\ batch_idx < total_batches(nodes_info, batch_size)
    /\ \E out \in _translate_with_fallback(provider, nodes_info, current_batch(nodes_info, batch_size, batch_idx), 0) :
          /\ out.ok
          /\ \A n \in DOMAIN full_batch_data \cap DOMAIN out.answer : IsObject(out.answer[n])
          /\ all_translated_nodes' =
                Update(all_translated_nodes,
                       _strict_validate_and_correct_batch(full_batch_data,
                           Restrict(out.answer, {n \in DOMAIN out.answer : IsObject(out.answer[n])})))
    /\ batch_idx' = batch_idx + 1
    /\ pc' = IF batch_idx + 1 = total_batches(nodes_info, batch_size) THEN "final" ELSE "batches"
    /\ UNCHANGED <<nodes_info, batch_size, rounds, only_tooltips, final_corrected, r,
                   missing_stats, consecutive_no_improve, loop_exit, gap_calls, last_merged,
                   provider>>
    /\ UNCHANGED <<vvars, rvars, pvars, avars, fvars, dvars>>

\* lines 311-314 and 411-432: the batch raised (every strategy of
\* _translate_with_fallback exhausted, or translated_info.get raised on a
\* value that is not an object) and translate_nodes raises
BatchFailed ==
    /\ pc = "batches"
    /\ batch_idx < total_batches(nodes_info, batch_size)
    /\ \E out \in _translate_with_fallback(provider, nodes_info, current_batch(nodes_info, batch_size, batch_idx), 0) :
          \/ ~ out.ok
          \/ \E n \in DOMAIN full_batch_data \cap DOMAIN out.answer : ~ IsObject(out.answer[n])
    /\ pc' = "raised"
    /\ UNCHANGED <<nodes_info, batch_size, rounds, only_tooltips, batch_idx,
                   all_translated_nodes, final_corrected, r, missing_stats,
                   consecutive_no_improve, loop_exit, gap_calls, last_merged,
                   provider>>
    /\ UNCHANGED <<vvars, rvars, pvars, avars, fvars, dvars>>

\* lines 315-342: the final validation, and the loop of the rounds is
\* entered (with rounds <= 1 its range is empty)
FinalValidation ==
    /\ pc = "final"
    /\ \E doc_tip \in DocTips(provider) :
          LET validated == _final_validation(nodes_info, all_translated_nodes, doc_tip)
              result    == IF only_tooltips THEN _tooltip_only(nodes_info, validated) ELSE validated
          IN  /\ final_corrected' = result
              /\ last_merged' = result
    /\ r' = 2
    /\ IF 2 <= max_rounds(rounds)
         THEN pc' = "round" /\ loop_exit' = "none"
         ELSE pc' = "done" /\ loop_exit' = "max_rounds"
    /\ UNCHANGED <<nodes_info, batch_size, rounds, only_tooltips, batch_idx,
                   all_translated_nodes, missing_stats, consecutive_no_improve, gap_calls,
                   provider>>
    /\ UNCHANGED <<vvars, rvars, pvars, avars, fvars, dvars>>

\* a faulty RoundConverged: the provider is called with the empty missing
\* set before the loop ends
RoundConvergedAfterCall ==
    /\ pc = "round"
    /\ _collect_missing(nodes_info, final_corrected, only_tooltips).total = 0
    /\ gap_calls' = gap_calls + 1
    /\ loop_exit' = "converged"
    /\ pc' = "done"
    /\ UNCHANGED <<nodes_info, batch_size, rounds, only_tooltips, batch_idx,
                   all_translated_nodes, final_corrected, r, missing_stats,
                   consecutive_no_improve, last_merged, provider>>
    /\ UNCHANGED <<vvars, rvars, pvars, avars, fvars, dvars>>

\* lines 346-350: nothing is missing, the loop ends and translate_nodes returns
RoundConverged ==
    /\ pc = "round"
    /\ _collect_missing(nodes_info, final_corrected, only_tooltips).total = 0
    /\ loop_exit' = "converged"
    /\ pc' = "done"
    /\ UNCHANGED <<nodes_info, batch_size, rounds, only_tooltips, batch_idx,
                   all_translated_nodes, final_corrected, r, missing_stats,
                   consecutive_no_improve, gap_calls, last_merged,
                   provider>>
    /\ UNCHANGED <<vvars, rvars, pvars, avars, fvars, dvars>>

\* lines 351-370: the missing entries are sent, the document is merged,
\* the round's statistics are kept; the loop ends when nothing was fixed
\* or when r was the last round
RoundMerged ==
    /\ pc = "round"
    /\ LET found == _collect_missing(nodes_info, final_corrected, only_tooltips)
       IN  /\ found.total # 0
           /\ \E translated_missing \in ProviderAnswers(provider, found.missing) :
                 /\ \A n \in DOMAIN translated_missing : IsObject(translated_missing[n])
                 /\ LET merged == _merge_translations(final_corrected, translated_missing,
                                                      DOMAIN translated_missing, only_tooltips)
                        fixed  == Max(0, _coverage(merged).covered_keys
                                          - _coverage(final_corrected).covered_keys)
                    IN  /\ final_corrected' = merged
                        /\ last_merged' = merged
                        /\ missing_stats' = Append(missing_stats,
                                               [round |-> r, found |-> found.total, fixed |-> fixed])
                        /\ consecutive_no_improve' = IF fixed = 0 THEN consecutive_no_improve + 1 ELSE 0
                        /\ loop_exit' = _round_exit(fixed, r, max_rounds(rounds))
                        /\ pc' = IF _round_exit(fixed, r, max_rounds(rounds)) = "none"
                                   THEN "round" ELSE "done"
                        /\ r' = IF _round_exit(fixed, r, max_rounds(rounds)) = "none"
                                  THEN r + 1 ELSE r
    /\ gap_calls' = gap_calls + 1
    /\ UNCHANGED <<nodes_info, batch_size, rounds, only_tooltips, batch_idx,
                   all_translated_nodes, provider>>
    /\ UNCHANGED <<vvars, rvars, pvars, avars, fvars, dvars>>

\* a faulty RoundCallFailed: the failure of the provider call is not
\* caught and translate_nodes raises
RoundCallRaises ==
    /\ pc = "round"
    /\ _collect_missing(nodes_info, final_corrected, only_tooltips).total # 0
    /\ MayRaise(provider)
    /\ gap_calls' = gap_calls + 1
    /\ pc' = "raised"
    /\ UNCHANGED <<nodes_info, batch_size, rounds, only_tooltips, batch_idx,
                   all_translated_nodes, final_corrected, r, missing_stats,
                   consecutive_no_improve, loop_exit, last_merged, provider>>
    /\ UNCHANGED <<vvars, rvars, pvars, avars, fvars, dvars>>

\* lines 353 and 374-382: _translate_batch raised; the error is logged and
\* translate_nodes returns final_corrected
RoundCallFailed ==
    /\ pc = "round"
    /\ _collect_missing(nodes_info, final_corrected, only_tooltips).total # 0
    /\ MayRaise(provider)
    /\ gap_calls' = gap_calls + 1
    /\ loop_exit' = "error"
    /\ pc' = "done"
    /\ UNCHANGED <<nodes_info, batch_size, rounds, only_tooltips, batch_idx,
                   all_translated_nodes, final_corrected, r, missing_stats,
                   consecutive_no_improve, last_merged, provider>>
    /\ UNCHANGED <<vvars, rvars, pvars, avars, fvars, dvars>>

\* lines 355 and 374-382: a value of the document is not an object and
\* _merge_translations raises at it: the nodes `before` it in the document
\* are merged, the node itself has been given its setdefault record
RoundMergeFailed ==
    /\ pc = "round"
    /\ LET found == _collect_missing(nodes_info, final_corrected, only_tooltips)
       IN  /\ found.total # 0
           /\ \E translated_missing \in ProviderAnswers(provider, found.missing) :
                \E bad \in {n \in DOMAIN translated_missing : ~ IsObject(translated_missing[n])} :
                  \E before \in SUBSET {n \in DOMAIN translated_missing : IsObject(translated_missing[n])} :
                     LET merged == _merge_translations(final_corrected, translated_missing,
                                                          before, only_tooltips)
                     IN  /\ final_corrected' =
                                IF bad \in DOMAIN merged THEN merged ELSE Put(merged, bad, BlankNode)
            /\ gap_calls' = gap_calls + 1
    /\ loop_exit' = "error"
    /\ pc' = "done"
    /\ UNCHANGED <<nodes_info, batch_size, rounds, only_tooltips, batch_idx,
                   all_translated_nodes, r, missing_stats, consecutive_no_improve, last_merged,
                   provider>>
    /\ UNCHANGED <<vvars, rvars, pvars, avars, fvars, dvars>>

TNext ==
    \/ BatchTranslated
    \/ BatchFailed
    \/ FinalValidation
    \/ RoundConverged
    \/ RoundMerged
    \/ RoundCallFailed
    \/ RoundMergeFailed

----------------------------------------------------------------------------
(* The provider-call wrappers: the loops of Translator.translate_batch    *)
(* (lines 198-242) and Translator._translate_batch (lines 703-736)        *)


\* the cap of the delay (lines 235 and 732)
MaxDelay == 60
\* the delay and the number of attempts _translate_batch is written with
\* (lines 704 and 733)
HardDelay == 2
HardAttempts == 5

\* bounds of the policies and of the calls of one session
MaxRetriesArg == 3
MaxCalls == 2
BaseDelays == {2, 45}

Policies ==
    [strategy : {"exponential", "fixed", "none"},
     max_retries : 0..MaxRetriesArg,
     base_delay_sec : BaseDelays]

\* the policy of the scenario of spec.md: exponential, 2 seconds, 3 retries
ScenarioPolicy == [strategy |-> "exponential", max_retries |-> 3, base_delay_sec |-> 2]

\* the wrappers a session can send its requests through: the two of
\* Translator, and the _translate_batch with which OllamaTranslator,
\* LMStudioTranslator and SiliconFlowTranslator override it
Methods == {"translate_batch", "_translate_batch", "Ollama", "LMStudio", "SiliconFlow"}

\* the wrappers that hold the loop of Translator (lines 203 and 705)
Wrapped(m) == m \in {"translate_batch", "_translate_batch"}

\* the value delay has when the loop is entered (lines 202 and 704); the
\* overriding wrappers have no delay and never read it
InitialDelay(m, policy) == IF m = "translate_batch" THEN policy.base_delay_sec ELSE HardDelay

RInit ==
    /\ rpc = "request"
    /\ method \in Methods
    /\ error_policy \in Policies
    /\ gemma_model \in BOOLEAN
    /\ use_single_user = (gemma_model /\ Wrapped(method))
    /\ attempts = 0
    /\ delay = InitialDelay(method, error_policy)
    /\ waits = << >>
    /\ requests = 0
    /\ stub \in {"always_429", "any"}
    /\ calls = 1
    /\ switched = FALSE

RIdle ==
    /\ rpc = "idle"
    /\ method = "translate_batch"
    /\ error_policy = ScenarioPolicy
    /\ gemma_model = FALSE
    /\ use_single_user = FALSE
    /\ attempts = 0
    /\ delay = 0
    /\ waits = << >>
    /\ requests = 0
    /\ stub = "any"
    /\ calls = 0
    /\ switched = FALSE

\* the request is answered with a completion: its text is decoded and
\* returned, or it is empty or undecodable and the call raises
Completed ==
    /\ rpc = "request"
    /\ stub = "any"
    /\ requests' = requests + 1
    /\ \E decoded \in BOOLEAN : rpc' = IF decoded THEN "done" ELSE "raised"
    /\ UNCHANGED <<method, error_policy, gemma_model, use_single_user, attempts, delay,
                   waits, stub, calls, switched>>
    /\ UNCHANGED <<vvars, tvars, pvars, avars, fvars, dvars>>

\* the request fails with the "developer instruction" phrase: the
\* messages are rebuilt as one user message and the request is sent
\* again; when the messages already are one user message the failure is
\* raised (it is no rate-limit failure); the overriding wrappers raise
\* every failure of the request
SystemRoleRefused ==
    /\ rpc = "request"
    /\ stub = "any"
    /\ requests' = requests + 1
    /\ IF Wrapped(method) /\ ~ use_single_user
         THEN use_single_user' = TRUE /\ switched' = TRUE /\ rpc' = "request"
         ELSE UNCHANGED <<use_single_user, switched>> /\ rpc' = "raised"
    /\ UNCHANGED <<method, error_policy, gemma_model, attempts, delay, waits, stub, calls>>
    /\ UNCHANGED <<vvars, tvars, pvars, avars, fvars, dvars>>

\* a faulty RateLimited: _translate_batch does not count the attempt
RateLimitedUncounted ==
    /\ rpc = "request"
    /\ requests' = requests + 1
    /\ rpc' = IF Wrapped(method) THEN "request" ELSE "raised"
    /\ UNCHANGED <<method, error_policy, gemma_model, use_single_user, attempts, delay,
                   waits, stub, calls, switched>>
    /\ UNCHANGED <<vvars, tvars, pvars, avars, fvars, dvars>>

\* the request fails with a rate-limit message (429, "rate limit",
\* "rate-limited"); the overriding wrappers raise it as any other failure
\* (status code other than 200)
RateLimited ==
    /\ rpc = "request"
    /\ requests' = requests + 1
    /\ IF method = "translate_batch"
         THEN IF attempts >= error_policy.max_retries
                THEN rpc' = "raised" /\ UNCHANGED <<attempts, delay, waits>>
                ELSE LET d == IF error_policy.strategy = "fixed" THEN delay
                              ELSE Min(delay * 2, MaxDelay)
                     IN  /\ delay' = d
                         /\ waits' = Append(waits, d)
                         /\ attempts' = attempts + 1
                         /\ rpc' = "request"
         ELSE IF method = "_translate_batch"
                THEN /\ waits' = Append(waits, delay)
                     /\ attempts' = attempts + 1
                     /\ delay' = Min(delay * 2, MaxDelay)
                     /\ rpc' = IF attempts + 1 >= HardAttempts THEN "raised" ELSE "request"
                ELSE rpc' = "raised" /\ UNCHANGED <<attempts, delay, waits>>
    /\ UNCHANGED <<method, error_policy, gemma_model, use_single_user, stub, calls, switched>>
    /\ UNCHANGED <<vvars, tvars, pvars, avars, fvars, dvars>>

\* the request fails with any other error: it is raised at once
OtherFailure ==
    /\ rpc = "request"
    /\ stub = "any"
    /\ requests' = requests + 1
    /\ rpc' = "raised"
    /\ UNCHANGED <<method, error_policy, gemma_model, use_single_user, attempts, delay,
                   waits, stub, calls, switched>>
    /\ UNCHANGED <<vvars, tvars, pvars, avars, fvars, dvars>>

\* the wrapper is called again in the same session: its locals are set anew
NextCall ==
    /\ rpc \in {"done", "raised"}
    /\ calls < MaxCalls
    /\ calls' = calls + 1
    /\ rpc' = "request"
    /\ use_single_user' = (gemma_model /\ Wrapped(method))
    /\ attempts' = 0
    /\ delay' = InitialDelay(method, error_policy)
    /\ waits' = << >>
    /\ requests' = 0
    /\ UNCHANGED <<method, error_policy, gemma_model, stub, switched>>
    /\ UNCHANGED <<vvars, tvars, pvars, avars, fvars, dvars>>

RNext ==
    \/ Completed
    \/ SystemRoleRefused
    \/ RateLimited
    \/ OtherFailure
    \/ NextCall

----------------------------------------------------------------------------
(* SpecParser: NodeParser.parse_folder on one plugin folder *)

\* the value None, and a or b of two names
None == "None"
PyOr(a, b) == IF a # None /\ a # "" THEN a ELSE b

\* getattr(node, name, None) of an ast.ClassDef: the fields of the syntax
\* node are its attributes; the assignments of the class body are
\* elements of the field body
ast_getattr(node, name) == IF name \in DOMAIN node THEN node[name] ELSE None

\* the statements of a file: a class that _is_comfy_node recognizes, with
\* the assignments of its body (returns: those to RETURN_TYPES and to
\* RETURN_NAMES, in the order of the body), and the two mapping tables
ClassDef(name, body, returns) ==
    [kind |-> "ClassDef", name |-> name, body |-> body, returns |-> returns]
ClassMappings(table) == [kind |-> "NODE_CLASS_MAPPINGS", table |-> table]
DisplayMappings(table) == [kind |-> "NODE_DISPLAY_NAME_MAPPINGS", table |-> table]

\* the first loop of parse_file: the entries of the tables of one kind,
\* a later assignment replacing the entries of an earlier one
RECURSIVE _collect_mappings(_, _)
_collect_mappings(file, kind) ==
    IF file = << >> THEN EmptyDict
    ELSE LET rest == _collect_mappings(SubSeq(file, 1, Len(file) - 1), kind)
             last == file[Len(file)]
         IN  IF last.kind = kind THEN Update(rest, last.table) ELSE rest

\* the node key and the title of one class (lines 73 to 89)
_node_key(node, node_mappings) ==
    LET mapped_name == Get(node_mappings, node.name, None)
        node_name   == IF mapped_name = None THEN ast_getattr(node, "NODE_NAME") ELSE None
    IN  PyOr(mapped_name, PyOr(node_name, node.name))

_display_name(node, node_key, display_names) ==
    PyOr(Get(display_names, node_key, None),
         PyOr(ast_getattr(node, "NODE_DISPLAY_NAME"), node_key))

\* f'output_{i}'
OutputName(i) == <<"output_0", "output_1", "output_2">>[i + 1]

\* NodeParser._parse_node_class, the outputs: the assignments are taken in
\* the order of the body; RETURN_TYPES adds an entry output_i for every
\* type, a non-empty RETURN_NAMES replaces the outputs by the names
RECURSIVE _parse_outputs(_)
_parse_outputs(items) ==
    IF items = << >> THEN EmptyDict
    ELSE LET outputs == _parse_outputs(SubSeq(items, 1, Len(items) - 1))
             item    == items[Len(items)]
         IN  IF item.target = "RETURN_TYPES"
               THEN Update(outputs, [k \in { OutputName(i - 1) : i \in 1..Len(item.value) } |->
                                       LET i == CHOOSE j \in 1..Len(item.value) :
                                                   OutputName(j - 1) = k
                                       IN  item.value[i]])
             ELSE IF item.target = "RETURN_NAMES" /\ item.value # << >>
               THEN [name \in { item.value[i] : i \in 1..Len(item.value) } |-> name]
             ELSE outputs

\* the record of a legacy node (lines 94 to 103) and of a schema node
\* (line 930); the inputs hold one parameter with its type name
LegacyNode(class_name, mapped_name, title, outputs) ==
    [_class_name |-> class_name, _mapped_name |-> mapped_name, title |-> title,
     inputs |-> ("image" :> "IMAGE"), outputs |-> outputs]
SchemaNode(title) ==
    [_api_version |-> "V3", title |-> title, inputs |-> ("image" :> "IMAGE")]

\* NodeParser.parse_file
RECURSIVE _parse_classes(_, _, _)
_parse_classes(file, node_mappings, display_names) ==
    IF file = << >> THEN EmptyDict
    ELSE LET rest == _parse_classes(SubSeq(file, 1, Len(file) - 1), node_mappings, display_names)
             node == file[Len(file)]
         IN  IF node.kind # "ClassDef" THEN rest
             ELSE LET key == _node_key(node, node_mappings)
                  IN  Put(rest, key,
                          LegacyNode(node.name, Get(node_mappings, node.name, None),
                                     _display_name(node, key, display_names),
                                     _parse_outputs(node.returns)))

parse_file(file) ==
    _parse_classes(file,
                   _collect_mappings(file, "NODE_CLASS_MAPPINGS"),
                   _collect_mappings(file, "NODE_DISPLAY_NAME_MAPPINGS"))

\* NodeParser.optimize_node_info: the fields kept, a value that is a type
\* name replaced by its key
type_replacements ==
    {"INT", "FLOAT", "BOOL", "STRING", "NUMBER", "BOOLEAN", "IMAGE", "MASK", "MODEL",
     "LATENT", "VAE", "CLIP", "CONDITIONING", "CONTROL_NET", "COMBO"}

optimize_node_info(nodes) ==
    [n \in DOMAIN nodes |->
        LET info == nodes[n]
            outs == IF "outputs" \in DOMAIN info THEN info.outputs ELSE EmptyDict
            kept == [title   |-> info.title,
                     inputs  |-> [k \in DOMAIN info.inputs |->
                                    IF info.inputs[k] \in type_replacements
                                      THEN k ELSE info.inputs[k]],
                     outputs |-> [k \in DOMAIN outs |->
                                    IF outs[k] \in type_replacements THEN k ELSE outs[k]]]
        IN  IF "_api_version" \in DOMAIN info
              THEN kept @@ [_api_version |-> info._api_version]
              ELSE kept]

\* a faulty _reconciled: the schema nodes are added to the legacy ones
_reconciled_merged(legacy, v3_nodes) == v3_nodes @@ legacy

\* what parse_folder keeps of the two scans (lines 653 to 668)
_reconciled(legacy, v3_nodes) == IF DOMAIN v3_nodes # {} THEN v3_nodes ELSE legacy

\* the files: one recognized class FooNode, with or without the
\* assignments NODE_NAME and NODE_DISPLAY_NAME in its body, and the
\* tables, absent or present, before or after the class
ClassBodies ==
    { EmptyDict, [NODE_NAME |-> "FooName"], [NODE_DISPLAY_NAME |-> "Foo Attr"],
      [NODE_NAME |-> "FooName", NODE_DISPLAY_NAME |-> "Foo Attr"] }

TableStatements ==
    LET class_tables   == {<< >>, <<ClassMappings([FooNode |-> "Foo"])>>}
        display_tables == {<< >>} \cup
                          { <<DisplayMappings((k :> "Foo Title"))>> :
                               k \in {"Foo", "FooName", "FooNode"} }
    IN  { c \o d : c \in class_tables, d \in display_tables }

\* the assignments to RETURN_TYPES and RETURN_NAMES of the class body:
\* none, one of them, or both in either order
ReturnTypes == [target |-> "RETURN_TYPES", value |-> <<"IMAGE", "MASK">>]
ReturnNames == [target |-> "RETURN_NAMES", value |-> <<"image", "mask">>]
ReturnAssigns ==
    { << >>, <<ReturnTypes>>, <<ReturnNames>>, <<ReturnTypes, ReturnNames>>,
      <<ReturnNames, ReturnTypes>> }

SourceFiles ==
    UNION { { <<ClassDef("FooNode", b, a)>> \o t, t \o <<ClassDef("FooNode", b, a)>> } :
               b \in ClassBodies, t \in TableStatements, a \in ReturnAssigns }

\* what _parse_v3_api finds: nothing, a node of its own, or a node under
\* the key of the legacy class
V3Results ==
    { EmptyDict, [SchemaNode |-> SchemaNode("Schema Title")], [Foo |-> SchemaNode("Foo V3")] }

PInit ==
    /\ p_pc = "call"
    /\ root_kind \in {"dir", "missing", "file"}
    /\ source_file \in SourceFiles
    /\ v3_found \in V3Results
    /\ parsed = EmptyDict

PIdle ==
    /\ p_pc = "idle"
    /\ root_kind = "dir"
    /\ source_file = << >>
    /\ v3_found = EmptyDict
    /\ parsed = EmptyDict

\* NodeParser.parse_folder: scan_files raises on a path that is missing
\* or no directory, and parse_folder answers the exception with an empty
\* map; otherwise the files are parsed, the schema scan is made and the
\* kept nodes are optimized
ParseFolder ==
    /\ p_pc = "call"
    /\ p_pc' = "returned"
    /\ parsed' = IF root_kind # "dir" THEN EmptyDict
                 ELSE optimize_node_info(_reconciled(parse_file(source_file), v3_found))
    /\ UNCHANGED <<root_kind, source_file, v3_found>>
    /\ UNCHANGED <<vvars, tvars, rvars, avars, fvars, dvars>>

PNext == ParseFolder

----------------------------------------------------------------------------
(* SpecApp: the translation button, the retry dialog and the worker
   threads of App *)

\* bounds: the threads one session starts, the plugin folders detected,
\* and the provider calls one plugin makes (batches and rounds)
MaxThreads == 3
MaxPlugins == 2
MaxPluginCalls == 2

Threads == 1..MaxThreads

\* the thread threading.Thread(...).start() creates next
NewThread == CHOOSE w \in Threads : w_pc[w] = "unborn" /\ \A u \in Threads : u < w => w_pc[u] # "unborn"

AInit ==
    /\ translating = FALSE
    /\ plugin_folders \in 1..MaxPlugins
    /\ failed_records = FALSE
    /\ retry_btn = FALSE
    /\ dialog_open = FALSE
    /\ w_pc = [w \in Threads |-> "unborn"]
    /\ w_left = [w \in Threads |-> 0]
    /\ w_calls = [w \in Threads |-> 0]
    /\ issued = 0

AIdle ==
    /\ translating = FALSE
    /\ plugin_folders = 0
    /\ failed_records = FALSE
    /\ retry_btn = FALSE
    /\ dialog_open = FALSE
    /\ w_pc = [w \in Threads |-> "unborn"]
    /\ w_left = [w \in Threads |-> 0]
    /\ w_calls = [w \in Threads |-> 0]
    /\ issued = 0

\* toggle_translation while self.translating is False: start_translation
\* sets the flag and starts a thread on batch_translation_task over all
\* the plugin folders
StartTranslation ==
    /\ ~ translating
    /\ \E w \in Threads : w_pc[w] = "unborn"
    /\ translating' = TRUE
    /\ w_pc' = [w_pc EXCEPT ![NewThread] = "start"]
    /\ w_left' = [w_left EXCEPT ![NewThread] = plugin_folders]
    /\ UNCHANGED <<plugin_folders, failed_records, retry_btn, dialog_open, w_calls, issued>>
    /\ UNCHANGED <<vvars, tvars, rvars, pvars, fvars, dvars>>

\* toggle_translation while self.translating is True: stop_translation
\* clears the flag and turns the button back to "start"
StopTranslation ==
    /\ translating
    /\ translating' = FALSE
    /\ UNCHANGED <<plugin_folders, failed_records, retry_btn, dialog_open, w_pc, w_left,
                   w_calls, issued>>
    /\ UNCHANGED <<vvars, tvars, rvars, pvars, fvars, dvars>>

\* retry_failed_translation: the retry button opens the dialog when there
\* are failed records
ShowFailedDialog ==
    /\ retry_btn
    /\ failed_records
    /\ dialog_open' = TRUE
    /\ UNCHANGED <<translating, plugin_folders, failed_records, retry_btn, w_pc, w_left,
                   w_calls, issued>>
    /\ UNCHANGED <<vvars, tvars, rvars, pvars, fvars, dvars>>

\* the button "close" of the dialog
CloseDialog ==
    /\ dialog_open
    /\ dialog_open' = FALSE
    /\ UNCHANGED <<translating, plugin_folders, failed_records, retry_btn, w_pc, w_left,
                   w_calls, issued>>
    /\ UNCHANGED <<vvars, tvars, rvars, pvars, fvars, dvars>>

\* do_retry of the dialog, with some records selected: the selected
\* folders leave failed_records, the dialog is destroyed, the flag is set
\* and a thread is started on batch_translation_task over the selected
\* folders; self.translating is not read
DoRetry ==
    /\ dialog_open
    /\ \E w \in Threads : w_pc[w] = "unborn"
    /\ \E selected \in 1..plugin_folders, left_over \in BOOLEAN :
          /\ failed_records' = left_over
          /\ retry_btn' = (retry_btn /\ left_over)
          /\ w_left' = [w_left EXCEPT ![NewThread] = selected]
    /\ dialog_open' = FALSE
    /\ translating' = TRUE
    /\ w_pc' = [w_pc EXCEPT ![NewThread] = "retry"]
    /\ UNCHANGED <<plugin_folders, w_calls, issued>>
    /\ UNCHANGED <<vvars, tvars, rvars, pvars, fvars, dvars>>

\* batch_translation_task up to its loop: a task over all the folders
\* empties failed_records and disables the retry button
WorkerBegin(w) ==
    /\ w_pc[w] \in {"start", "retry"}
    /\ w_pc' = [w_pc EXCEPT ![w] = "loop"]
    /\ IF w_pc[w] = "start"
         THEN failed_records' = FALSE /\ retry_btn' = FALSE
         ELSE UNCHANGED <<failed_records, retry_btn>>
    /\ UNCHANGED <<translating, plugin_folders, dialog_open, w_left, w_calls, issued>>
    /\ UNCHANGED <<vvars, tvars, rvars, pvars, fvars, dvars>>

\* the head of the loop over the folders (lines 1580 and 1581): the loop
\* ends when the folders are used up or the flag is found cleared;
\* otherwise the folder is parsed and translate_nodes is entered, with
\* the provider calls its batches and rounds will make (none when the
\* folder has no node)
WorkerNextPlugin(w) ==
    /\ w_pc[w] = "loop"
    /\ IF w_left[w] = 0 \/ ~ translating
         THEN /\ w_pc' = [w_pc EXCEPT ![w] = "finish"]
              /\ UNCHANGED <<w_left, w_calls>>
         ELSE /\ w_pc' = [w_pc EXCEPT ![w] = "plugin"]
              /\ w_left' = [w_left EXCEPT ![w] = @ - 1]
              /\ \E n \in 0..MaxPluginCalls : w_calls' = [w_calls EXCEPT ![w] = n]
    /\ UNCHANGED <<translating, plugin_folders, failed_records, retry_btn, dialog_open, issued>>
    /\ UNCHANGED <<vvars, tvars, rvars, pvars, fvars, dvars>>

\* translate_nodes issues its next provider call (a batch of round 1 or
\* a convergence round; the flag is not read): the call returns, or it
\* raises, the plugin is recorded as failed and the loop goes on
WorkerProviderCall(w) ==
    /\ w_pc[w] = "plugin"
    /\ w_calls[w] > 0
    /\ issued' = issued + 1
    /\ \/ /\ w_calls' = [w_calls EXCEPT ![w] = @ - 1]
          /\ UNCHANGED <<w_pc, failed_records>>
       \/ /\ w_calls' = [w_calls EXCEPT ![w] = 0]
          /\ w_pc' = [w_pc EXCEPT ![w] = "loop"]
          /\ failed_records' = TRUE
    /\ UNCHANGED <<translating, plugin_folders, retry_btn, dialog_open, w_left>>
    /\ UNCHANGED <<vvars, tvars, rvars, pvars, fvars, dvars>>

\* translate_nodes has returned and the result is saved, or the folder
\* had no node: back to the head of the loop
WorkerPluginDone(w) ==
    /\ w_pc[w] = "plugin"
    /\ w_calls[w] = 0
    /\ w_pc' = [w_pc EXCEPT ![w] = "loop"]
    /\ UNCHANGED <<translating, plugin_folders, failed_records, retry_btn, dialog_open,
                   w_left, w_calls, issued>>
    /\ UNCHANGED <<vvars, tvars, rvars, pvars, fvars, dvars>>

\* after the loop (lines 1819 to 1840): with failed records the retry
\* button is enabled and the dialog shown; the flag is cleared
WorkerFinish(w) ==
    /\ w_pc[w] = "finish"
    /\ w_pc' = [w_pc EXCEPT ![w] = "exit"]
    /\ translating' = FALSE
    /\ IF failed_records
         THEN retry_btn' = TRUE /\ dialog_open' = TRUE
         ELSE UNCHANGED <<retry_btn, dialog_open>>
    /\ UNCHANGED <<plugin_folders, failed_records, w_left, w_calls, issued>>
    /\ UNCHANGED <<vvars, tvars, rvars, pvars, fvars, dvars>>

ANext ==
    \/ StartTranslation
    \/ StopTranslation
    \/ ShowFailedDialog
    \/ CloseDialog
    \/ DoRetry
    \/ \E w \in Threads : WorkerBegin(w)
    \/ \E w \in Threads : WorkerNextPlugin(w)
    \/ \E w \in Threads : WorkerProviderCall(w)
    \/ \E w \in Threads : WorkerPluginDone(w)
    \/ \E w \in Threads : WorkerFinish(w)

----------------------------------------------------------------------------
(* SpecPlugin: App.batch_translation_task on the plugins of one run, at
   the grain of the calls of _translate_batch: the round-1 batch of
   translate_nodes in Translator._translate_with_fallback, and the except
   clause of the task with its fallback models and its batch size *)

MaxBatchSizeArg == 5
MaxFallbackModels == 2

\* the test "_depth >= 2" of _translate_with_fallback
DepthLimit == 2

\* a faulty _may_split: the depth is not looked at
_may_split_unbounded(_depth, n) == n > 1

\* whether _translate_with_fallback splits the batch of n items that
\* failed at _depth (the negation of the test before its raise)
_may_split(_depth, n) == ~(_depth >= DepthLimit \/ n <= 1)

\* an activation of _translate_with_fallback on the items lo..hi
Frame(lo, hi, _depth) == [lo |-> lo, hi |-> hi, depth |-> _depth, at |-> "call"]

\* mid = len(items) // 2
Mid(frame) == (frame.hi - frame.lo + 1) \div 2

\* the activations after the innermost one returned: the caller that
\* waited for its left half calls the right half, the caller that waited
\* for its right half merges and returns in turn
RECURSIVE _returned(_)
_returned(stack) ==
    IF stack = << >> THEN << >>
    ELSE LET caller == stack[Len(stack)]
             rest   == SubSeq(stack, 1, Len(stack) - 1)
         IN  IF caller.at = "left"
               THEN rest \o << [caller EXCEPT !.at = "right"],
                               Frame(caller.lo + Mid(caller), caller.hi, caller.depth + 1) >>
               ELSE _returned(rest)

FInit ==
    /\ f_pc = "idle"
    /\ f_size = 1
    /\ f_stack = << >>
    /\ f_done = {}
    /\ f_calls = 0
    /\ f_splits = 0
    /\ f_deepest = 0
    /\ fallback_models \in 0..MaxFallbackModels
    /\ f_offered = 0
    /\ rate_limited = FALSE
    /\ batch_size_arg \in 1..MaxBatchSizeArg
    /\ curr_batch_size = batch_size_arg

FIdle ==
    /\ f_pc = "idle"
    /\ f_size = 1
    /\ f_stack = << >>
    /\ f_done = {}
    /\ f_calls = 0
    /\ f_splits = 0
    /\ f_deepest = 0
    /\ fallback_models = 0
    /\ f_offered = 0
    /\ rate_limited = FALSE
    /\ batch_size_arg = 1
    /\ curr_batch_size = 1

\* the loop of the task takes the next plugin: translate_nodes is called
\* with batch_size = curr_batch_size, and its batch of at most that many
\* nodes goes to _translate_with_fallback at depth 0
PluginBegin ==
    /\ f_pc \in {"idle", "saved", "failed"}
    /\ f_pc' = "translate"
    /\ f_size' \in 1..curr_batch_size
    /\ f_stack' = << Frame(1, f_size', 0) >>
    /\ f_done' = {}
    /\ f_calls' = 0
    /\ f_splits' = 0
    /\ f_deepest' = 0
    /\ f_offered' = 0
    /\ rate_limited' = FALSE
    /\ UNCHANGED <<fallback_models, batch_size_arg, curr_batch_size>>
    /\ UNCHANGED <<vvars, tvars, rvars, pvars, avars, dvars>>

\* the call of _translate_batch of the innermost activation returns
BatchReturns ==
    /\ f_pc = "translate"
    /\ LET top == f_stack[Len(f_stack)]
           s   == _returned(SubSeq(f_stack, 1, Len(f_stack) - 1))
       IN  /\ f_calls' = f_calls + 1
           /\ f_deepest' = Max(f_deepest, top.depth)
           /\ f_done' = f_done \cup (top.lo .. top.hi)
           /\ f_stack' = s
           /\ f_pc' = IF s = << >> THEN "saved" ELSE "translate"
    /\ UNCHANGED <<f_size, f_splits, fallback_models, f_offered, rate_limited,
                   batch_size_arg, curr_batch_size>>
    /\ UNCHANGED <<vvars, tvars, rvars, pvars, avars, dvars>>

\* the call raises and the batch is split: the left half is called
BatchFailedSplit ==
    /\ f_pc = "translate"
    /\ LET top == f_stack[Len(f_stack)]
       IN  /\ _may_split(top.depth, top.hi - top.lo + 1)
           /\ f_calls' = f_calls + 1
           /\ f_deepest' = Max(f_deepest, top.depth)
           /\ f_splits' = f_splits + 1
           /\ f_stack' = SubSeq(f_stack, 1, Len(f_stack) - 1) \o
                         << [top EXCEPT !.at = "left"],
                            Frame(top.lo, top.lo + Mid(top) - 1, top.depth + 1) >>
    /\ UNCHANGED <<f_pc, f_size, f_done, fallback_models, f_offered, rate_limited,
                   batch_size_arg, curr_batch_size>>
    /\ UNCHANGED <<vvars, tvars, rvars, pvars, avars, dvars>>

\* the call raises and the batch is not split: the exception leaves every
\* activation and translate_nodes, and reaches the except clause of the
\* task, or of its loop over the fallback models; info is taken from the
\* exception of the first translator
BatchFailedRaised ==
    /\ f_pc = "translate"
    /\ LET top == f_stack[Len(f_stack)]
       IN  /\ ~_may_split(top.depth, top.hi - top.lo + 1)
           /\ f_calls' = f_calls + 1
           /\ f_deepest' = Max(f_deepest, top.depth)
    /\ f_stack' = << >>
    /\ f_pc' = "except"
    /\ IF f_offered = 0 THEN rate_limited' \in BOOLEAN ELSE rate_limited' = rate_limited
    /\ UNCHANGED <<f_size, f_done, f_splits, fallback_models, f_offered,
                   batch_size_arg, curr_batch_size>>
    /\ UNCHANGED <<vvars, tvars, rvars, pvars, avars, dvars>>

\* the next fallback model is offered and the user answers no
OfferDeclined ==
    /\ f_pc = "except"
    /\ f_offered < fallback_models
    /\ f_offered' = f_offered + 1
    /\ UNCHANGED <<f_pc, f_size, f_stack, f_done, f_calls, f_splits, f_deepest,
                   fallback_models, rate_limited, batch_size_arg, curr_batch_size>>
    /\ UNCHANGED <<vvars, tvars, rvars, pvars, avars, dvars>>

\* the next fallback model is offered and the user answers yes: a new
\* Translator of that model translates the plugin again
OfferAccepted ==
    /\ f_pc = "except"
    /\ f_offered < fallback_models
    /\ f_offered' = f_offered + 1
    /\ f_pc' = "translate"
    /\ f_stack' = << Frame(1, f_size, 0) >>
    /\ f_done' = {}
    /\ f_calls' = 0
    /\ f_splits' = 0
    /\ f_deepest' = 0
    /\ UNCHANGED <<f_size, fallback_models, rate_limited, batch_size_arg, curr_batch_size>>
    /\ UNCHANGED <<vvars, tvars, rvars, pvars, avars, dvars>>

\* no model is left: the plugin is recorded as failed, and an error
\* localized as 429 sets curr_batch_size to max(3, curr_batch_size - 2)
PluginFailed ==
    /\ f_pc = "except"
    /\ f_offered = fallback_models
    /\ f_pc' = "failed"
    /\ curr_batch_size' = IF rate_limited
                            THEN LET new_size == Max(3, curr_batch_size - 2)
                                 IN  IF new_size # curr_batch_size THEN new_size
                                     ELSE curr_batch_size
                            ELSE curr_batch_size
    /\ UNCHANGED <<f_size, f_stack, f_done, f_calls, f_splits, f_deepest, fallback_models,
                   f_offered, rate_limited, batch_size_arg>>
    /\ UNCHANGED <<vvars, tvars, rvars, pvars, avars, dvars>>

FNext ==
    \/ PluginBegin
    \/ BatchReturns
    \/ BatchFailedSplit
    \/ BatchFailedRaised
    \/ OfferDeclined
    \/ OfferAccepted
    \/ PluginFailed

----------------------------------------------------------------------------
(* SpecDecoder: the third step of Translator._extract_json_from_response.
   The text is a sequence of characters, each a one-character string; a
   position is counted from 1, and 0 stands for the -1 of the code *)

MaxTextLen == 5

\* the characters of the texts: the brackets, the quote, the backslash
\* and the comma
Chars == {"{", "}", "[", "]", "\"", "\\", ","}
IsOpener(ch) == ch = "{" \/ ch = "["
IsCloser(ch) == ch = "}" \/ ch = "]"

\* the loop of _find_balanced_end from position i on
RECURSIVE _find_balanced_end_from(_, _, _, _, _, _)
_find_balanced_end_from(text, i, in_str, escape, depth, last_end) ==
    IF i > Len(text) THEN last_end
    ELSE LET ch == text[i]
         IN  IF escape THEN _find_balanced_end_from(text, i + 1, in_str, FALSE, depth, last_end)
             ELSE IF ch = "\\"
               THEN _find_balanced_end_from(text, i + 1, in_str, TRUE, depth, last_end)
             ELSE IF ch = "\""
               THEN _find_balanced_end_from(text, i + 1, ~in_str, FALSE, depth, last_end)
             ELSE IF in_str
               THEN _find_balanced_end_from(text, i + 1, in_str, FALSE, depth, last_end)
             ELSE LET d == IF IsOpener(ch) THEN depth + 1
                           ELSE IF IsCloser(ch) /\ depth > 0 THEN depth - 1
                           ELSE depth
                      e == IF d = 0 /\ IsCloser(ch) THEN i ELSE last_end
                  IN  _find_balanced_end_from(text, i + 1, in_str, FALSE, d, e)

_find_balanced_end(text) == _find_balanced_end_from(text, 1, FALSE, FALSE, 0, 0)

\* the loop of _close_unbalanced from position i on: the stack at the end
RECURSIVE _open_stack_from(_, _, _, _, _)
_open_stack_from(text, i, in_str, escape, stack) ==
    IF i > Len(text) THEN stack
    ELSE LET ch == text[i]
         IN  IF escape THEN _open_stack_from(text, i + 1, in_str, FALSE, stack)
             ELSE IF ch = "\\" THEN _open_stack_from(text, i + 1, in_str, TRUE, stack)
             ELSE IF ch = "\"" THEN _open_stack_from(text, i + 1, ~in_str, FALSE, stack)
             ELSE IF in_str THEN _open_stack_from(text, i + 1, in_str, FALSE, stack)
             ELSE IF IsOpener(ch)
               THEN _open_stack_from(text, i + 1, in_str, FALSE, Append(stack, ch))
             ELSE IF IsCloser(ch) /\ stack # << >>
               THEN _open_stack_from(text, i + 1, in_str, FALSE,
                                     SubSeq(stack, 1, Len(stack) - 1))
             ELSE _open_stack_from(text, i + 1, in_str, FALSE, stack)

\* the closer of every opener of the stack, the last opener first
_closers(stack) ==
    [i \in 1..Len(stack) |-> IF stack[Len(stack) + 1 - i] = "{" THEN "}" ELSE "]"]

_close_unbalanced(text) == text \o _closers(_open_stack_from(text, 1, FALSE, FALSE, << >>))

\* re.sub(r',\s*(?=[}\]])', '', json_str) on a text without white space:
\* every comma that a closing bracket follows is removed
RECURSIVE _without_trailing_commas(_)
_without_trailing_commas(text) ==
    IF text = << >> THEN << >>
    ELSE IF Len(text) >= 2 /\ text[1] = "," /\ IsCloser(text[2])
      THEN _without_trailing_commas(Tail(text))
    ELSE <<Head(text)>> \o _without_trailing_commas(Tail(text))

\* the texts that start with an opening brace
RECURSIVE TextsOfLen(_)
TextsOfLen(n) ==
    IF n = 0 THEN {<< >>}
    ELSE { Append(t, ch) : t \in TextsOfLen(n - 1), ch \in Chars }

Candidates == UNION { { <<"{">> \o t : t \in TextsOfLen(n) } : n \in 0..(MaxTextLen - 1) }

DInit ==
    /\ d_pc = "call"
    /\ candidate \in Candidates
    /\ json_str = << >>
    /\ loads_arg = << >>

DIdle ==
    /\ d_pc = "idle"
    /\ candidate = << >>
    /\ json_str = << >>
    /\ loads_arg = << >>

\* lines 119 to 128: the candidate from the first brace on, cut at
\* end_balanced or closed by _close_unbalanced, then without its
\* trailing commas handed to json.loads
ExtractCandidate ==
    /\ d_pc = "call"
    /\ d_pc' = "done"
    /\ LET end_balanced == _find_balanced_end(candidate)
       IN  json_str' = IF end_balanced # 0 THEN SubSeq(candidate, 1, end_balanced)
                       ELSE _close_unbalanced(candidate)
    /\ loads_arg' = _without_trailing_commas(json_str')
    /\ UNCHANGED candidate
    /\ UNCHANGED <<vvars, tvars, rvars, pvars, avars, fvars>>

DNext == ExtractCandidate

----------------------------------------------------------------------------
(* Specifications *)

vars == <<vvars, tvars, rvars, pvars, avars, fvars, dvars>>

\* the validator at rest
VIdle ==
    /\ v_pc = "idle"
    /\ original_batch = EmptyDict
    /\ translated_batch = EmptyDict
    /\ corrected_batch = EmptyDict

\* translate_nodes at rest
TIdle ==
    /\ pc = "idle"
    /\ nodes_info = EmptyDict
    /\ batch_size = 1
    /\ rounds = 1
    /\ only_tooltips = FALSE
    /\ batch_idx = 0
    /\ all_translated_nodes = EmptyDict
    /\ final_corrected = EmptyDict
    /\ r = 2
    /\ missing_stats = << >>
    /\ consecutive_no_improve = 0
    /\ loop_exit = "none"
    /\ gap_calls = 0
    /\ last_merged = EmptyDict
    /\ provider = "idle"

\* translate_nodes, from its call to its return or raise
Init == TInit /\ VIdle /\ RIdle /\ PIdle /\ AIdle /\ FIdle /\ DIdle
Next == TNext
Spec == Init /\ [][Next]_vars

\* _strict_validate_and_correct_batch on one batch
InitValidator == VInit /\ TIdle /\ RIdle /\ PIdle /\ AIdle /\ FIdle /\ DIdle
SpecValidator == InitValidator /\ [][VNext]_vars

\* the calls of a provider-call wrapper in one session
InitRetry == RInit /\ VIdle /\ TIdle /\ PIdle /\ AIdle /\ FIdle /\ DIdle
SpecRetry == InitRetry /\ [][RNext]_vars

\* parse_folder on one plugin folder
InitParser == PInit /\ VIdle /\ TIdle /\ RIdle /\ AIdle /\ FIdle /\ DIdle
SpecParser == InitParser /\ [][PNext]_vars

\* the user's actions and the worker threads of one session of App
InitApp == AInit /\ VIdle /\ TIdle /\ RIdle /\ PIdle /\ FIdle /\ DIdle
SpecApp == InitApp /\ [][ANext]_vars

\* the plugins of one run of batch_translation_task
InitPlugin == FInit /\ VIdle /\ TIdle /\ RIdle /\ PIdle /\ AIdle /\ DIdle
SpecPlugin == InitPlugin /\ [][FNext]_vars

\* _extract_json_from_response on one response
InitDecoder == DInit /\ VIdle /\ TIdle /\ RIdle /\ PIdle /\ AIdle /\ FIdle
SpecDecoder == InitDecoder /\ [][DNext]_vars

----------------------------------------------------------------------------
(* Properties of the batch validator (under SpecValidator) *)

\* the keys of a section of a node that name a reserved opaque type
ReservedKeys(node_info, section) ==
    {k \in DOMAIN node_info[section] : Upper(k) \in PRESERVED_TYPES}

\* C2, as the specification states it: every key of the original batch's
\* inputs, widgets and outputs whose uppercased form is a reserved type
\* name has that name as its validated value, whatever the provider's
\* batch holds.  It fails on a node the provider's batch leaves out.
C2_ReservedForcedAlways ==
    v_pc = "done" =>
        \A n \in DOMAIN original_batch : \A s \in Sections :
            \A k \in ReservedKeys(original_batch[n], s) :
                corrected_batch[n][s][k] = Upper(k)

\* C2: for every node the provider's batch holds, every key of the
\* original inputs, widgets and outputs whose uppercased form is a
\* reserved type name has that name as its validated value, whether the
\* provider gave the key no value, an implausible or a plausible one; a
\* node the provider's batch does not hold keeps its original record.
C2_ReservedForced ==
    v_pc = "done" =>
        \A n \in DOMAIN original_batch :
            IF n \in DOMAIN translated_batch
              THEN \A s \in Sections :
                     \A k \in ReservedKeys(original_batch[n], s) :
                        corrected_batch[n][s][k] = Upper(k)
              ELSE corrected_batch[n] = original_batch[n]

\* a reserved key for which the provider gave a plausible translation has
\* been validated to its reserved name
C2_Witness ==
    /\ v_pc = "done"
    /\ \E n \in DOMAIN original_batch \cap DOMAIN translated_batch : \E s \in Sections :
         \E k \in ReservedKeys(original_batch[n], s) :
            /\ k \in DOMAIN Get(translated_batch[n], s, EmptyDict)
            /\ _is_valid_translation(k, translated_batch[n][s][k])
            /\ corrected_batch[n][s][k] = Upper(k)
            /\ Upper(k) # k

\* the value the priority of the specification gives a key that is not
\* reserved: the dictionary's, else the provider's plausible one, else
\* the key
PriorityValue(k, trans_section) ==
    IF Lower(k) \in DOMAIN COMMON_TRANSLATIONS THEN COMMON_TRANSLATIONS[Lower(k)]
    ELSE IF k \in DOMAIN trans_section /\ _is_valid_translation(k, trans_section[k])
      THEN trans_section[k]
    ELSE k

----------------------------------------------------------------------------
(* Properties of translate_nodes (under Spec) *)

\* the parameter names of the extracted record of a node
OriginalKeys(node_info) ==
    DOMAIN node_info.inputs \cup DOMAIN node_info.widgets
      \cup DOMAIN node_info.outputs \cup DOMAIN node_info.tooltips

\* the requested rounds clamped to [1,5], as the specification states it
Clamped(n) == IF n < 1 THEN 1 ELSE IF n > 5 THEN 5 ELSE n

\* whether every key of the returned result holds a Chinese text
FullCoverage(nodes) == _coverage(nodes).covered_keys = _coverage(nodes).total_keys

\* whether a node map holds a parameter whose name is a reserved type name
HasReserved(nodes) ==
    \E n \in DOMAIN nodes : \E s \in Sections : ReservedKeys(nodes[n], s) # {}

\* C1: when translate_nodes has returned, every key of the inputs, widgets
\* and tooltips of every node of the result is a parameter name of the
\* originally extracted record of that node.
C1_NoManufacturedKeys ==
    pc = "done" =>
        \A n \in DOMAIN final_corrected :
            /\ n \in DOMAIN nodes_info
            /\ \A s \in {"inputs", "widgets", "tooltips"} :
                  DOMAIN final_corrected[n][s] \subseteq OriginalKeys(nodes_info[n])

\* the run of the example of the specification: the example plugin and
\* the provider that returns the example document, returned, with
\* only_tooltips off
ExampleRun ==
    pc = "done" /\ provider = "example" /\ nodes_info = ExampleNodes /\ ~ only_tooltips

\* what the example's final record holds whatever the number of rounds
ExampleCommon ==
    /\ final_corrected["NodeA"].title = ExampleNode.title
    /\ final_corrected["NodeA"].widgets[s_seed] = ExampleNode.widgets[s_seed]
    /\ s_seed \in DOMAIN final_corrected["NodeA"].tooltips
    /\ _has_chinese(final_corrected["NodeA"].tooltips[s_seed])

FullRun ==
    /\ pc = "done"
    /\ provider = "full"
    /\ _coverage(nodes_info).covered_keys = 0
    /\ ~ only_tooltips

C7_ConvergedOnEmpty ==
    [][ ((pc = "round" /\ _collect_missing(nodes_info, final_corrected, only_tooltips).total = 0)
           \/ pc = "done")
        => /\ pc' = "done"
           /\ gap_calls' = gap_calls
           /\ final_corrected' = final_corrected
           /\ missing_stats' = missing_stats
           /\ (pc = "round" => loop_exit' = "converged") ]_vars

\* a round after a repair has found nothing missing and the loop has
\* ended there
C7_Witness ==
    /\ pc = "done"
    /\ loop_exit = "converged"
    /\ gap_calls >= 1
    /\ _collect_missing(nodes_info, final_corrected, only_tooltips).total = 0

\* the bounds of the loop: the rounds run, round 1 counted, are at most
\* the requested rounds clamped to [1,5], so at most 4 repair calls
LoopBounds ==
    /\ 1 + gap_calls <= Clamped(rounds)
    /\ gap_calls <= 4
    /\ Len(missing_stats) <= gap_calls
    /\ (pc = "round" => r <= Clamped(rounds))

\* C8, as the specification states it: the bounds hold and the loop ends
\* Converged (nothing missing) or Exhausted (nothing fixed, or the rounds
\* used up).  It fails when a round ends the loop by a failure.
C8_BoundedAlways ==
    /\ LoopBounds
    /\ (pc = "done" => loop_exit \in {"converged", "no_improve", "max_rounds"})

\* C8: for every requested rounds value the rounds run are at most the
\* value clamped to [1,5] and at most 4 repair calls are made; the loop
\* ends by the break on the empty missing set, by the break on fixed = 0,
\* by using up the rounds (then exactly the clamped number of rounds was
\* run), or by the contained failure of a round.
C8_Bounded ==
    /\ LoopBounds
    /\ (pc = "done" =>
          /\ loop_exit \in {"converged", "no_improve", "max_rounds", "error"}
          /\ (loop_exit = "max_rounds" => 1 + gap_calls = Clamped(rounds))
          /\ (loop_exit = "converged" =>
                _collect_missing(nodes_info, final_corrected, only_tooltips).total = 0))

\* with 6 rounds requested, 5 were run: four repair rounds each fixed
\* something and the rounds were used up
C8_Witness ==
    /\ pc = "done"
    /\ rounds = 6
    /\ gap_calls = 4
    /\ Len(missing_stats) = 4
    /\ loop_exit = "max_rounds"

\* whether result b is result a with values of a document merged in
MergedInto(a, b) ==
    /\ DOMAIN a \subseteq DOMAIN b
    /\ \A n \in DOMAIN a :
          /\ (b[n].title = a[n].title \/ _has_chinese(b[n].title))
          /\ \A s \in Sections \cup {"tooltips"} :
                /\ DOMAIN a[n][s] \subseteq DOMAIN b[n][s]
                /\ \A k \in DOMAIN b[n][s] :
                      \/ (k \in DOMAIN a[n][s] /\ b[n][s][k] = a[n][s][k])
                      \/ _has_chinese(b[n][s][k])

\* translate_nodes raises only out of round 1
RaisesOnlyInRoundOne ==
    pc = "raised" => (loop_exit = "none" /\ gap_calls = 0 /\ final_corrected = EmptyDict)

\* C9, as the specification states it: a failure in a round n > 1 is
\* contained and translate_nodes returns the result as it stood after the
\* last merge that completed.  It fails when the merge itself fails
\* after it has merged a part of the document.
C9_ContainedAlways ==
    /\ RaisesOnlyInRoundOne
    /\ (pc = "done" => final_corrected = last_merged)

\* C9: the rounds n > 1 never make translate_nodes raise; after a failed
\* provider call, and after every other end of the loop but a failed
\* merge, the result returned is the result of the last completed merge;
\* after a merge that failed on a value of the document that is no
\* object it is that result with the document's values before the
\* failing one merged in.  The missing set need not be empty.
C9_Contained ==
    /\ RaisesOnlyInRoundOne
    /\ (pc = "done" =>
          IF loop_exit = "error"
            THEN MergedInto(last_merged, final_corrected)
            ELSE final_corrected = last_merged)

\* a round has failed, translate_nodes has returned the result of the
\* rounds before, and entries are still missing
C9_Witness ==
    /\ pc = "done"
    /\ loop_exit = "error"
    /\ Len(missing_stats) >= 1
    /\ final_corrected = last_merged
    /\ _collect_missing(nodes_info, final_corrected, only_tooltips).total > 0

\* C20: when translate_nodes has returned, every node of the extracted
\* map is in the result, with every key of its inputs, widgets and
\* outputs in the same section, and with a tooltip for every key that
\* had one.
C20_NeverRemoved ==
    pc = "done" =>
        \A n \in DOMAIN nodes_info :
            /\ n \in DOMAIN final_corrected
            /\ \A s \in Sections :
                  DOMAIN nodes_info[n][s] \subseteq DOMAIN final_corrected[n][s]
            /\ DOMAIN nodes_info[n].tooltips \subseteq DOMAIN final_corrected[n].tooltips

\* a node with an output and a tooltip has been through a repair round
\* that changed the result, and still has its output and its tooltip
C20_Witness ==
    /\ pc = "done"
    /\ gap_calls >= 1
    /\ \E n \in DOMAIN nodes_info :
          /\ DOMAIN nodes_info[n].outputs # {}
          /\ DOMAIN nodes_info[n].tooltips # {}
          /\ final_corrected[n].outputs # nodes_info[n].outputs
          /\ DOMAIN nodes_info[n].outputs \subseteq DOMAIN final_corrected[n].outputs
          /\ DOMAIN nodes_info[n].tooltips \subseteq DOMAIN final_corrected[n].tooltips

----------------------------------------------------------------------------
(* Properties of the provider-call wrappers (under SpecRetry) *)

\* the scenario of the specification: the exponential policy with base
\* delay 2 and 3 retries, a provider that always reports a rate limit,
\* and the call, made through a wrapper of Translator, has failed
ScenarioFailed ==
    /\ rpc = "raised" /\ stub = "always_429" /\ error_policy = ScenarioPolicy
    /\ Wrapped(method)

\* C10: in the scenario the call fails after exactly 3 retries (4
\* requests), and the waits before the retries are 2, 4 and 8 seconds.
C10_RetryScenario ==
    ScenarioFailed => (requests = 4 /\ attempts = 3 /\ waits = <<2, 4, 8>>)

\* C11: under the policy with strategy "none" a rate-limit failure ends
\* the call at once: no wait has been made and no retry counted, whatever
\* max_retries is.
C11_NoneFailsAtOnce ==
    error_policy.strategy = "none" => (waits = << >> /\ attempts = 0)

\* C12: once a request was refused with the "developer instruction"
\* phrase and sent again as one user message, every later request of the
\* session is sent as one user message.
C12_SingleUserPermanent ==
    (rpc = "request" /\ switched) => use_single_user

\* the policy leaves a retry for the rate-limit failure of this request
RetriesRemain ==
    error_policy.strategy # "none" /\ attempts < error_policy.max_retries

\* C13: whatever the wrapper of the session (Translator's or one of the
\* three overriding ones), a rate-limit failure with retries remaining
\* under the policy is followed by a wait and another request: the call
\* does not fail.
C13_EveryCallWrapped ==
    [][(RateLimited /\ RetriesRemain)
          => (rpc' = "request" /\ Len(waits') = Len(waits) + 1)]_vars

----------------------------------------------------------------------------
(* Properties of the worker threads (under SpecApp) *)

\* C14: while the flag self.translating is cleared (the stop was asked
\* for), no thread issues a provider call.
C14_NoCallAfterStop ==
    [][(~ translating) => issued' = issued]_vars

\* C15: at most one thread is inside the body of the loop over the
\* plugin folders (parsing or translating a plugin) at any moment.
C15_OnePluginAtATime ==
    Cardinality({w \in Threads : w_pc[w] = "plugin"}) <= 1

----------------------------------------------------------------------------
(* Properties of parse_folder (under SpecParser) *)

\* parse_folder has returned the nodes of a plugin folder
Parsed == p_pc = "returned" /\ root_kind = "dir"

\* the nodes the legacy scan of the file yields
LegacyFound == parse_file(source_file)

\* C16: when the schema scan yields a node, the returned map holds the
\* schema nodes and only them, and no node that only the legacy scan
\* found; when it yields none, the returned map is the legacy scan's.
C16_Reconciliation ==
    Parsed =>
      IF DOMAIN v3_found # {}
        THEN /\ DOMAIN parsed = DOMAIN v3_found
             /\ \A n \in DOMAIN parsed :
                   /\ "_api_version" \in DOMAIN parsed[n]
                   /\ parsed[n].title = v3_found[n].title
             /\ \A n \in DOMAIN LegacyFound \ DOMAIN v3_found : n \notin DOMAIN parsed
        ELSE parsed = optimize_node_info(LegacyFound)

\* both scans found a node, the legacy one under a key of its own, and
\* the returned map holds the schema node only
C16_Witness ==
    /\ Parsed
    /\ DOMAIN v3_found # {}
    /\ DOMAIN LegacyFound \ DOMAIN v3_found # {}
    /\ DOMAIN parsed = DOMAIN v3_found

\* the class of the file and its two tables
TheClass == CHOOSE c \in {source_file[i] : i \in DOMAIN source_file} : c.kind = "ClassDef"
ClassTable == _collect_mappings(source_file, "NODE_CLASS_MAPPINGS")
DisplayTable == _collect_mappings(source_file, "NODE_DISPLAY_NAME_MAPPINGS")

\* the plugin has legacy nodes only
LegacyOnly == Parsed /\ DOMAIN v3_found = {}

\* C17: the title of a legacy node is the display-name table's entry for
\* its key when there is one, else the class's NODE_DISPLAY_NAME when the
\* class declares it, else the key.
C17_TitlePriority ==
    LegacyOnly =>
      \A key \in DOMAIN parsed :
         parsed[key].title =
            IF key \in DOMAIN DisplayTable THEN DisplayTable[key]
            ELSE IF "NODE_DISPLAY_NAME" \in DOMAIN TheClass.body
                   THEN TheClass.body.NODE_DISPLAY_NAME
                   ELSE key

\* C18: the key of a legacy node is the class-mapping table's entry for
\* the class when there is one, else the class's NODE_NAME when the class
\* declares it, else the class name, wherever the tables stand in the file.
C18_KeyPriority ==
    LegacyOnly =>
      DOMAIN parsed =
         { IF TheClass.name \in DOMAIN ClassTable THEN ClassTable[TheClass.name]
           ELSE IF "NODE_NAME" \in DOMAIN TheClass.body
                  THEN TheClass.body.NODE_NAME
                  ELSE TheClass.name }

\* C19: on a root that is missing or no directory the call ends with an
\* error raised to the caller, and returns no node map.
C19_BadRootFatal ==
    (p_pc \in {"returned", "raised"} /\ root_kind # "dir") => p_pc = "raised"

----------------------------------------------------------------------------
(* Properties of the plugin task (under SpecPlugin) *)

\* C21: fallback models come before bisection: no batch is split while a
\* configured fallback model has not yet been offered for it, so every
\* step that splits a batch starts with all fallback models offered
C21_FallbackBeforeBisection ==
    [][f_splits' > f_splits => f_offered = fallback_models]_vars

----------------------------------------------------------------------------
(* Properties of the response decoder (under SpecDecoder) *)

\* the first position from i on at which the nesting depth returns to
\* zero, brackets inside quoted strings not counted; 0 when there is none
RECURSIVE MatchingEndFrom(_, _, _, _, _)
MatchingEndFrom(text, i, in_str, escape, depth) ==
    IF i > Len(text) THEN 0
    ELSE LET ch == text[i]
         IN  IF escape THEN MatchingEndFrom(text, i + 1, in_str, FALSE, depth)
             ELSE IF ch = "\\" THEN MatchingEndFrom(text, i + 1, in_str, TRUE, depth)
             ELSE IF ch = "\"" THEN MatchingEndFrom(text, i + 1, ~in_str, FALSE, depth)
             ELSE IF in_str THEN MatchingEndFrom(text, i + 1, in_str, FALSE, depth)
             ELSE IF IsOpener(ch) THEN MatchingEndFrom(text, i + 1, in_str, FALSE, depth + 1)
             ELSE IF IsCloser(ch)
               THEN IF depth = 1 THEN i
                    ELSE MatchingEndFrom(text, i + 1, in_str, FALSE, depth - 1)
             ELSE MatchingEndFrom(text, i + 1, in_str, FALSE, depth)

MatchingEnd(text) == MatchingEndFrom(text, 1, FALSE, FALSE, 0)

\* the brackets of a text whose balance is never restored that are still
\* open at its end, in the order of their opening
RECURSIVE StillOpenFrom(_, _, _, _, _)
StillOpenFrom(text, i, in_str, escape, open) ==
    IF i > Len(text) THEN open
    ELSE LET ch == text[i]
         IN  IF escape THEN StillOpenFrom(text, i + 1, in_str, FALSE, open)
             ELSE IF ch = "\\" THEN StillOpenFrom(text, i + 1, in_str, TRUE, open)
             ELSE IF ch = "\"" THEN StillOpenFrom(text, i + 1, ~in_str, FALSE, open)
             ELSE IF in_str THEN StillOpenFrom(text, i + 1, in_str, FALSE, open)
             ELSE IF IsOpener(ch) THEN StillOpenFrom(text, i + 1, in_str, FALSE, open \o <<ch>>)
             ELSE IF IsCloser(ch)
               THEN StillOpenFrom(text, i + 1, in_str, FALSE, SubSeq(open, 1, Len(open) - 1))
             ELSE StillOpenFrom(text, i + 1, in_str, FALSE, open)

ClosedInReverse(text) ==
    LET open == StillOpenFrom(text, 1, FALSE, FALSE, << >>)
    IN  text \o [i \in 1..Len(open) |-> IF open[Len(open) + 1 - i] = "{" THEN "}" ELSE "]"]

\* C23: from the first opening brace on, the decoder selects the text up
\* to the closing bracket at which the nesting depth returns to zero; when
\* the depth never returns to zero it appends one closing bracket for
\* every bracket still open, the last opened first
C23_MatchingCandidate ==
    d_pc = "done" =>
        json_str = IF MatchingEnd(candidate) # 0
                     THEN SubSeq(candidate, 1, MatchingEnd(candidate))
                     ELSE ClosedInReverse(candidate)

----------------------------------------------------------------------------
(* Properties of the legacy outputs (under SpecParser) *)

\* the assignments of the class to the target, in the order of the body
Declared(target) ==
    LET returns == TheClass.returns
    IN  { i \in 1..Len(returns) : returns[i].target = target }

\* C24: when the class declares both RETURN_TYPES and RETURN_NAMES, in
\* either order, the outputs of the returned node are exactly the declared
\* names, each as key and as value, and no output_N entry
C24_NamesOverride ==
    ( /\ LegacyOnly
      /\ Declared("RETURN_TYPES") # {}
      /\ Declared("RETURN_NAMES") # {} )
    => \A n \in DOMAIN parsed :
          parsed[n].outputs = [name \in {"image", "mask"} |-> name]

----------------------------------------------------------------------------
(* Properties of the repair rounds (under Spec) *)

\* C25: a convergence round never overwrites a value that the batch
\* validator forced to a reserved name: an input, widget or output of the
\* result whose key's uppercased form is a reserved type name and whose
\* value is that name keeps it in every step, so that the returned
\* result still holds it
C25_ReservedSurvive ==
    [][ \A n \in DOMAIN final_corrected : \A s \in Sections :
          \A k \in ReservedKeys(final_corrected[n], s) :
             final_corrected[n][s][k] = Upper(k) =>
                /\ n \in DOMAIN final_corrected'
                /\ k \in DOMAIN final_corrected'[n][s]
                /\ final_corrected'[n][s][k] = Upper(k)
      ]_vars

\* C27: in every recorded round the number of fixed entries is at most
\* the number of missing entries found in that round
C27_FixedAtMostFound ==
    \A i \in DOMAIN missing_stats : missing_stats[i].fixed <= missing_stats[i].found

----------------------------------------------------------------------------
(* Termination of the generic wrapper (under SpecRetry) *)

\* C26: every request of Translator._translate_batch is one of at most 6
\* of its invocation, and the loop goes on to another request only after
\* a rate-limited attempt that is counted, of which there are fewer than
\* 5, or after the one switch to the single user message, which counts
\* no attempt; every other outcome returns or raises
C26_WrapperTerminates ==
    [][ (method = "_translate_batch" /\ rpc = "request") =>
          /\ requests' = requests + 1
          /\ requests' <= HardAttempts + 1
          /\ rpc' \in {"request", "done", "raised"}
          /\ rpc' = "request" =>
                \/ /\ attempts' = attempts + 1
                   /\ attempts' < HardAttempts
                   /\ use_single_user' = use_single_user
                \/ /\ attempts' = attempts
                   /\ ~ use_single_user
                   /\ use_single_user'
      ]_vars

\* C26 witness: the sixth request of an invocation was rate-limited for
\* the fifth time, after one re-send, and the wrapper has raised
C26_Witness ==
    /\ method = "_translate_batch"
    /\ rpc = "raised"
    /\ requests = HardAttempts + 1
    /\ attempts = HardAttempts
    /\ use_single_user /\ ~ gemma_model

----------------------------------------------------------------------------
(* Properties of the in-progress flag (under SpecApp) *)

\* the threads inside batch_translation_task that have not left its loop
Running == {w \in Threads : w_pc[w] \in {"start", "retry", "loop", "plugin"}}

\* C29: the in-progress flag belongs to one run: a worker that finishes
\* clears the flag only when no other worker is still running, so that it
\* never cancels a run started after its own
C29_FlagOfOneRun ==
    [][ \A w \in Threads :
          (w_pc[w] = "finish" /\ w_pc'[w] = "exit") => Running \ {w} = {}
      ]_vars

----------------------------------------------------------------------------
(* Properties of the batch size (under SpecPlugin) *)

\* C30: the batch size used for the following plugins is never larger
\* than the one used before, and never below 1, whatever the configured
\* batch size
C30_OnlyLowers ==
    [][curr_batch_size' <= curr_batch_size /\ curr_batch_size' >= 1]_vars

=============================================================================
